---- MODULE Spec2Model ----
(***************************************************************************)
(* Queue & scheduler (worker_loop.py, job_queue_manager.py), the chunked   *)
(* production pipeline (process_job_with_chunks), the legacy pipeline      *)
(* (VideoProductionOrchestrator.process_job) and the media analyzer's      *)
(* writes to the shared tables.  The tables video_jobs, generations and    *)
(* video_chunks are the shared state; every worker tick is a process that  *)
(* takes one step per database-visible operation.                          *)
(***************************************************************************)
EXTENDS Integers, Naturals, Sequences, FiniteSets, TLC

\* ------------------------------------------------------------------ bounds
NumJobs == 2
NumTicks == 2
MaxChunks == 2
MaxCreatedAt == 2
MaxTempo == 320
MaxUserBpm == 301
MaxMeasures == 11
MaxUlps == 2
MaxDurationMs == 22500
MaxOffsetMs == 12
MaxRawMs == 14
MaxChunkSeconds == 9
MaxIndex == 3
MaxRunChunks == 7
MaxAnalyses == 2

Jobs == 1..NumJobs
Ticks == 1..NumTicks
NoJob == 0

\* ------------------------------------------------------------- vocabulary
Tiers == {"demo", "label", "artist", "open_mic", "industry"}
GatedTiers == {"demo", "industry"}
CancelMsg == "Cancelled by user"
PipelineCancelMsg == "Generation cancelled by user"

VARIABLES
    system_config,   \* max_concurrent_jobs row of system_config: its value, or NoConfig
    video_jobs,      \* [Jobs -> row of video_jobs]
    generations,     \* [Jobs -> row of generations] (generation linked to job j)
    video_chunks,    \* [Jobs -> [Ticks -> the chunk records of the job that the
                     \*  tick's run on the job inserted, by chunk index]]
    rowlock,         \* rows locked FOR UPDATE by a get_next_job call in flight
    pc,              \* [Ticks -> position of the tick in worker_loop]
    cur,             \* [Ticks -> local variables of the tick]
    outcome,         \* [Ticks -> how the tick's last invocation ended]
    synth_requests,  \* [Ticks -> chunk indexes the tick's latest run submitted for synthesis]
    cancel_seen,     \* [Ticks -> iteration at which the run read 'cancelled', or NotSeen]
    analyzing,       \* [Jobs -> the analyses of the job: how many compute, how many
                     \*  have stored their results, and the webhook's last answer]
    analysis,        \* fixture of the tempo check: a webhook request and its result
    pretrim,         \* fixture of the pre-trim check: probed durations, offset, result
    chunking,        \* fixture of the chunk-count check: duration, chunk_duration, result
    poll,            \* fixture of the polling check: local state of one poll_status call
    timing,          \* fixture of the audio-timing check: one chunk's start times
    prog,            \* fixture of the progress check: the progress writes of one run
    shot,            \* fixture of the single-shot check: one process_video_impl call
    pending_set,     \* fixture of the priority-fetch check: set of PENDING rows
    fetched          \* fixture of the priority-fetch check: row returned

vars == <<system_config, video_jobs, generations, video_chunks, rowlock, pc, cur,
          outcome, synth_requests, cancel_seen, analyzing, analysis, pretrim,
          chunking, poll, timing, prog, shot, pending_set, fetched>>

schedVars == <<system_config, video_jobs, generations, video_chunks, rowlock, pc,
               cur, outcome, synth_requests, cancel_seen, analyzing>>
fetchVars == <<pending_set, fetched>>
tempoVars == <<analysis>>
sideVars == <<timing, prog, shot>>
calcVars == <<pretrim, chunking, poll, sideVars>>

\* ---------------------------------------------------------- priority fetch
TIER_WEIGHTS == [demo |-> 5, label |-> 4, artist |-> 3, open_mic |-> 2, industry |-> 1]

\* position of a tier name in ascending string order: .order("tier", desc=False)
TierAlpha == [artist |-> 1, demo |-> 2, industry |-> 3, label |-> 4, open_mic |-> 5]

BoolRank(b) == IF b THEN 1 ELSE 0

\* ORDER BY is_first_time DESC, tier weight DESC, created_at ASC
RpcBefore(a, b) ==
    \/ BoolRank(a.is_first_time) > BoolRank(b.is_first_time)
    \/ /\ a.is_first_time = b.is_first_time
       /\ TIER_WEIGHTS[a.tier] > TIER_WEIGHTS[b.tier]
    \/ /\ a.is_first_time = b.is_first_time
       /\ TIER_WEIGHTS[a.tier] = TIER_WEIGHTS[b.tier]
       /\ a.created_at < b.created_at

\* .order("is_first_time", desc=True).order("tier", desc=False).order("created_at", desc=False)
FallbackBefore(a, b) ==
    \/ BoolRank(a.is_first_time) > BoolRank(b.is_first_time)
    \/ /\ a.is_first_time = b.is_first_time
       /\ TierAlpha[a.tier] < TierAlpha[b.tier]
    \/ /\ a.is_first_time = b.is_first_time
       /\ TierAlpha[a.tier] = TierAlpha[b.tier]
       /\ a.created_at < b.created_at

\* the rows a LIMIT 1 query can return under the order (more than one only
\* when the order leaves a tie)
get_next_job(rows) ==
    {r \in rows : \A o \in rows : ~RpcBefore(o, r)}

_fetch_next_job_fallback(rows) ==
    {r \in rows : \A o \in rows : ~FallbackBefore(o, r)}

\* ------------------------------------------------------------ table rows
\* chunk_duration is "null" until the analyzer (or the intake) sets it
\* an ANALYZED row has its chunk_duration; a row that another deployment of
\* the queue manager claimed (mark_job_processing) is PROCESSING
InitJobRows(j) ==
    { r \in [status : {"PENDING"}, tier : {"demo", "industry", "artist"},
             is_first_time : {FALSE}, created_at : {j},
             analysis_status : {"PENDING_ANALYSIS", "ANALYZED"},
             chunk_duration : {"null", "set"}, generation_id : BOOLEAN,
             error_message : {""}] :
         r.analysis_status = "ANALYZED" => r.chunk_duration = "set" }
    \cup
    { [status |-> "PROCESSING", tier |-> "demo", is_first_time |-> FALSE,
       created_at |-> j, analysis_status |-> "ANALYZED", chunk_duration |-> "set",
       generation_id |-> TRUE, error_message |-> ""] }

\* cancel_requested records that the user has cancelled (never written by the code)
InitGeneration == [status |-> "pending", cancel_requested |-> FALSE,
                   progress_percentage |-> 0, cost_credits |-> 0]

\* a stored object: the namespace of its key, the row that owns the key and
\* the chunk number NNN
NoUrl == [prefix |-> "null", owner |-> "", id |-> NoJob, index |-> 0]

\* credits_charged is counted in units of int(chunk_duration) of the job;
\* NoCredits is the column left null
NoCredits == -1

\* tracked: chunk_records holds the record (its id is known to the run);
\* NoRow stands for an index whose insert raised: no record, nothing tracked
NoRow == [status |-> "NO_ROW", error_message |-> "", error_len |-> 0,
          fal_request_id |-> FALSE, video_url |-> NoUrl, credits_charged |-> NoCredits,
          tracked |-> FALSE]
PendingChunk == [NoRow EXCEPT !.status = "PENDING", !.tracked = TRUE]

\* the insert returned no data: the record is in the table, its id unknown
UnknownChunk == [NoRow EXCEPT !.status = "PENDING"]

\* the file a pipeline hands back: the segments it is made of, in their
\* order, and whether ffmpeg concatenated them
NoVideo == [segments |-> <<>>, concatenated |-> FALSE]

\* limit: what get_concurrency_limit returned to the invocation;
\* duration: the probed duration of the video in seconds, 0 before the probe;
\* final_segments: the list of segment files, by chunk index;
\* segments_uploaded, segments_signed: the chunks whose muxed segment is in
\* storage, and those for which the segment's URL was obtained as well
IdleCur == [job |-> NoJob, limit |-> 0, analysis_status |-> "", chunk_duration |-> "",
            duration |-> 0,
            i |-> 0, j |-> 0, num_chunks |-> 0, total_credits_charged |-> 0,
            final_segments |-> <<>>,
            segments_uploaded |-> {}, segments_signed |-> {},
            final_video |-> NoVideo, path_exists |-> FALSE]

NoOutcome == [kind |-> "none", job |-> NoJob]
NotSeen == -1

\* -------------------------------------------------------- queue manager
\* system_config has no max_concurrent_jobs row
NoConfig == -1

\* get_concurrency_limit, lines 27-36: the value of the row; the default when
\* there is no row, and when the request or int() raises (lines 34-36)
get_concurrency_limit(raises) ==
    IF raises \/ system_config = NoConfig THEN 3 ELSE system_config

get_active_job_count == Cardinality({j \in Jobs : video_jobs[j].status = "PROCESSING"})

PendingJobs == {j \in Jobs : video_jobs[j].status = "PENDING"}

mark_job_processing(j) == [video_jobs EXCEPT ![j].status = "PROCESSING"]

mark_job_complete(j) == [video_jobs EXCEPT ![j].status = "COMPLETED"]

mark_job_failed(j, msg) ==
    [video_jobs EXCEPT ![j].status = "FAILED", ![j].error_message = msg]

\* no analysis of the job was requested
NoAnalyses == [running |-> 0, results |-> 0, answer |-> "none"]

\* ------------------------------------------------------------------ Init
SchedInit ==
    /\ system_config \in {NoConfig, 0, 1}
    /\ video_jobs \in {f \in [Jobs -> UNION {InitJobRows(j) : j \in Jobs}] :
                          \A j \in Jobs : f[j] \in InitJobRows(j)}
    /\ generations = [j \in Jobs |-> InitGeneration]
    /\ video_chunks = [j \in Jobs |-> [t \in Ticks |-> <<>>]]
    /\ rowlock = {}
    /\ pc = [t \in Ticks |-> "idle"]
    /\ cur = [t \in Ticks |-> IdleCur]
    /\ outcome = [t \in Ticks |-> NoOutcome]
    /\ synth_requests = [t \in Ticks |-> {}]
    /\ cancel_seen = [t \in Ticks |-> NotSeen]
    /\ analyzing = [j \in Jobs |-> NoAnalyses]

NoFetch == [via |-> "none", found |-> FALSE, row |-> [tier |-> "demo", is_first_time |-> FALSE, created_at |-> 0]]

FetchIdle ==
    /\ pending_set = {}
    /\ fetched = NoFetch

\* no bpm in the request body
NoBpm == <<>>

\* a bpm and a chunk_duration are floats (below), none before the analysis
NoAnalysis == [stage |-> "none", user_bpm |-> NoBpm, tempo |-> NoBpm, bpm |-> NoBpm,
               measures_per_chunk |-> 0, chunk_duration |-> NoBpm]

TempoIdle == analysis = NoAnalysis

NoPreTrim == [stage |-> "none", sync_offset |-> 0, video_duration_raw |-> 0,
              audio_duration_raw |-> 0, video_duration |-> 0, audio_duration |-> 0,
              trimmed |-> "none"]

NoChunking == [stage |-> "none", duration |-> 0, chunk_duration |-> 1, num_chunks |-> 0]

\* answered: the status request of the latest attempt was answered (lines
\* 96-103 did not raise); result_failed: the request for the result that
\* followed its COMPLETED status failed; fallback_tried: the latest attempt
\* asked the result endpoint directly
NoPoll == [stage |-> "none", attempt |-> 0, status_poll_failures |-> 0,
           result |-> "none", video_url |-> FALSE, completed_seen |-> FALSE,
           answered |-> FALSE, result_failed |-> FALSE, fallback_tried |-> FALSE]

\* audio_start_sliced: the -ss of the audio slice, NoTime when no slice was cut;
\* audio_start_persisted: the audio_start_time written to the chunk record,
\* NoTime when none was; update: the update of the record that went through
NoTime == -1

NoTiming == [stage |-> "none", i |-> 0, chunk_duration |-> 1, sync_offset |-> 0,
             audio_start_sliced |-> NoTime, audio_start_persisted |-> NoTime,
             update |-> "none"]

\* no progress_percentage written yet
NoProgress == -1

\* prev, last: the two latest values of progress_percentage that the run
\* wrote; segments: len(final_segments); status: the generation's status
NoProg == [stage |-> "none", num_chunks |-> 0, i |-> 0, segments |-> 0,
           prev |-> NoProgress, last |-> NoProgress, status |-> "pending"]

\* polls: iterations of the polling loop that ended; submitted: the
\* generation was set to processing; status, error_message: the generation's
\* row; out: the JSON answer of post_root; raised: process_video_impl raised
NoShot == [stage |-> "none", audio |-> FALSE, is_trial |-> FALSE, polls |-> 0,
           submitted |-> FALSE, status |-> "pending", error_message |-> "null",
           out |-> "none", raised |-> FALSE]

SideIdle ==
    /\ timing = NoTiming
    /\ prog = NoProg
    /\ shot = NoShot

CalcIdle ==
    /\ pretrim = NoPreTrim
    /\ chunking = NoChunking
    /\ poll = NoPoll
    /\ SideIdle

Init == SchedInit /\ FetchIdle /\ TempoIdle /\ CalcIdle

\* the tick ends: worker_loop returns or an exception leaves it
EndTick(t, kind) ==
    /\ pc' = [pc EXCEPT ![t] = "idle"]
    /\ outcome' = [outcome EXCEPT ![t] = [kind |-> kind, job |-> cur[t].job]]
    /\ cur' = [cur EXCEPT ![t] = IdleCur]

Goto(t, label) ==
    /\ pc' = [pc EXCEPT ![t] = label]
    /\ UNCHANGED outcome

\* ------------------------------------------------- worker_loop, lines 78-119
\* the test as it would be with the limit itself still admitted
at_capacity_above(current_active, limit) == current_active > limit

\* line 81: if current_active >= limit
at_capacity(current_active, limit) == current_active >= limit

\* line 79: a new invocation starts with the read of the limit; no table is
\* written; what is known of the invocation before it (outcome,
\* synth_requests, cancel_seen) is forgotten
ReadLimit(t, faults) ==
    /\ pc[t] = "idle"
    /\ \E raises \in (IF faults THEN BOOLEAN ELSE {FALSE}) :
          cur' = [cur EXCEPT ![t].limit = get_concurrency_limit(raises)]
    /\ pc' = [pc EXCEPT ![t] = "capacity"]
    /\ outcome' = [outcome EXCEPT ![t] = NoOutcome]
    /\ synth_requests' = [synth_requests EXCEPT ![t] = {}]
    /\ cancel_seen' = [cancel_seen EXCEPT ![t] = NotSeen]
    /\ UNCHANGED <<system_config, video_jobs, generations, video_chunks, rowlock>>

\* lines 80-83: the PROCESSING jobs are counted; the system is saturated, the
\* tick returns
Saturated(t) ==
    /\ pc[t] = "capacity"
    /\ at_capacity(get_active_job_count, cur[t].limit)
    /\ EndTick(t, "saturated")
    /\ UNCHANGED <<system_config, video_jobs, generations, video_chunks, rowlock,
                   synth_requests, cancel_seen>>

\* lines 80-86: the count is below the limit, the tick goes on to fetch
CapacityOk(t) ==
    /\ pc[t] = "capacity"
    /\ ~at_capacity(get_active_job_count, cur[t].limit)
    /\ Goto(t, "fetch")
    /\ UNCHANGED <<system_config, video_jobs, generations, video_chunks, rowlock, cur,
                   synth_requests, cancel_seen>>

Remember(t, j) ==
    [cur EXCEPT ![t] = [IdleCur EXCEPT !.job = j,
                           !.analysis_status = video_jobs[j].analysis_status,
                           !.chunk_duration = video_jobs[j].chunk_duration]]

\* 2. FETCH: the stored routine selects the first PENDING row that no other
\* call holds locked (FOR UPDATE SKIP LOCKED) and locks it
RpcSelect(t) ==
    /\ pc[t] = "fetch"
    /\ \E j \in PendingJobs \ rowlock :
          /\ video_jobs[j] \in get_next_job({video_jobs[k] : k \in PendingJobs \ rowlock})
          /\ rowlock' = rowlock \cup {j}
          /\ cur' = Remember(t, j)
    /\ Goto(t, "rpc")
    /\ UNCHANGED <<system_config, video_jobs, generations, video_chunks,
                   synth_requests, cancel_seen>>

\* the routine's transaction ends with the call: the lock is released
RpcReturn(t) ==
    /\ pc[t] = "rpc"
    /\ rowlock' = rowlock \ {cur[t].job}
    /\ Goto(t, "fetched")
    /\ UNCHANGED <<system_config, video_jobs, generations, video_chunks, cur,
                   synth_requests, cancel_seen>>

\* the rpc raised: the fallback query takes the first PENDING row, no lock
FetchFallback(t) ==
    /\ pc[t] = "fetch"
    /\ \E j \in PendingJobs :
          /\ video_jobs[j] \in _fetch_next_job_fallback({video_jobs[k] : k \in PendingJobs})
          /\ cur' = Remember(t, j)
    /\ Goto(t, "fetched")
    /\ UNCHANGED <<system_config, video_jobs, generations, video_chunks, rowlock,
                   synth_requests, cancel_seen>>

\* no row came back: "Queue empty."
QueueEmpty(t) ==
    /\ pc[t] = "fetch"
    /\ PendingJobs \ rowlock = {}
    /\ EndTick(t, "empty")
    /\ UNCHANGED <<system_config, video_jobs, generations, video_chunks, rowlock,
                   synth_requests, cancel_seen>>

GenLinked(j) == video_jobs[j].generation_id

GenCancelled(j) == GenLinked(j) /\ generations[j].status = "cancelled"

\* the gate as it would be with the industry tier forgotten
NeedsAnalysisDemoOnly(t) ==
    /\ cur[t].analysis_status # "ANALYZED"
    /\ video_jobs[cur[t].job].tier = "demo"

NeedsAnalysis(t) ==
    /\ cur[t].analysis_status # "ANALYZED"
    /\ video_jobs[cur[t].job].tier \in GatedTiers

\* line 106 formats chunk_duration with :.3f; None raises TypeError, outside
\* the try block: the exception leaves worker_loop
LogChunkDurationRaises(t) ==
    /\ pc[t] = "fetched"
    /\ cur[t].chunk_duration = "null"
    /\ EndTick(t, "raised")
    /\ UNCHANGED <<system_config, video_jobs, generations, video_chunks, rowlock,
                   synth_requests, cancel_seen>>

\* lines 109-112: the generation's status is read and is 'cancelled'
CancelSeenBeforeDispatch(t) ==
    /\ pc[t] = "fetched"
    /\ cur[t].chunk_duration # "null"
    /\ GenCancelled(cur[t].job)
    /\ Goto(t, "skip_cancelled")
    /\ UNCHANGED <<system_config, video_jobs, generations, video_chunks, rowlock,
                   cur, synth_requests, cancel_seen>>

\* lines 110-111: the read raises (.single() finds no row, or the request
\* fails) outside the try block: the exception leaves worker_loop
CancelCheckRaises(t, faults) ==
    /\ faults
    /\ pc[t] = "fetched"
    /\ cur[t].chunk_duration # "null"
    /\ GenLinked(cur[t].job)
    /\ EndTick(t, "raised")
    /\ UNCHANGED <<system_config, video_jobs, generations, video_chunks, rowlock,
                   synth_requests, cancel_seen>>

\* lines 113-114: the job is marked FAILED and the tick returns
CancelledBeforeDispatch(t) ==
    /\ pc[t] = "skip_cancelled"
    /\ video_jobs' = mark_job_failed(cur[t].job, CancelMsg)
    /\ EndTick(t, "cancelled")
    /\ UNCHANGED <<system_config, generations, video_chunks, rowlock,
                   synth_requests, cancel_seen>>

\* lines 116-119: the analysis gate
AnalysisGate(t) ==
    /\ pc[t] = "fetched"
    /\ cur[t].chunk_duration # "null"
    /\ ~GenCancelled(cur[t].job)
    /\ NeedsAnalysis(t)
    /\ EndTick(t, "needs_analysis")
    /\ UNCHANGED <<system_config, video_jobs, generations, video_chunks, rowlock,
                   synth_requests, cancel_seen>>

EnterTry(t) ==
    /\ pc[t] = "fetched"
    /\ cur[t].chunk_duration # "null"
    /\ ~GenCancelled(cur[t].job)
    /\ ~NeedsAnalysis(t)
    /\ Goto(t, "try")
    /\ UNCHANGED <<system_config, video_jobs, generations, video_chunks, rowlock,
                   cur, synth_requests, cancel_seen>>


\* ------------------------------------------------ worker_loop, lines 216-225
\* except Exception: the job is marked FAILED (line 219); the update of the
\* linked generation is the next request (ExceptGeneration)
Except(t, msg) ==
    /\ video_jobs' = mark_job_failed(cur[t].job, msg)
    /\ UNCHANGED generations
    /\ IF GenLinked(cur[t].job)
       THEN Goto(t, "handler") /\ UNCHANGED cur
       ELSE EndTick(t, "failed")

\* lines 221-225: the linked generation is marked failed
ExceptGeneration(t) ==
    /\ pc[t] = "handler"
    /\ generations' = [generations EXCEPT ![cur[t].job].status = "failed"]
    /\ EndTick(t, "failed")
    /\ UNCHANGED <<system_config, video_jobs, video_chunks, rowlock,
                   synth_requests, cancel_seen>>

\* lines 222-225: the update raises; nothing guards it, the exception leaves
\* worker_loop
ExceptGenerationRaises(t, faults) ==
    /\ faults
    /\ pc[t] = "handler"
    /\ EndTick(t, "raised")
    /\ UNCHANGED <<system_config, video_jobs, generations, video_chunks, rowlock,
                   synth_requests, cancel_seen>>

\* ------------------------------------------------ worker_loop, lines 121-146
\* the client, the orchestrator or the target images are missing
TryRaises(t) ==
    /\ pc[t] = "try"
    /\ Except(t, "error")
    /\ UNCHANGED <<system_config, video_chunks, rowlock, synth_requests, cancel_seen>>

\* an update of status and progress_percentage / of progress_percentage alone
SetGenStage(j, st, p) ==
    IF GenLinked(j)
    THEN [generations EXCEPT ![j].status = st, ![j].progress_percentage = p]
    ELSE generations

SetGenProgress(j, p) ==
    IF GenLinked(j) THEN [generations EXCEPT ![j].progress_percentage = p] ELSE generations

\* the progress as it would be rounded to the nearest percent
chunk_progress_rounded(k, n) == 10 + ((2 * k * 80 + n) \div (2 * n))

\* lines 436 and 687: 10 + int((k / num_chunks) * 80)
chunk_progress(k, n) == 10 + ((k * 80) \div n)

\* lines 140-146: generation -> processing
Dispatch(t) ==
    /\ pc[t] = "try"
    /\ generations' = SetGenStage(cur[t].job, "processing", 5)
    /\ Goto(t, "run")
    /\ UNCHANGED <<system_config, video_jobs, video_chunks, rowlock, cur,
                   synth_requests, cancel_seen>>

use_chunk_tracking(t) ==
    /\ video_jobs[cur[t].job].tier \in GatedTiers
    /\ cur[t].chunk_duration # "null"

\* ------------------------------------- process_job_with_chunks, lines 249-406
\* the records that the run of tick t inserted for its job
Rows(t) == video_chunks[cur[t].job][t]

RowExists(t, k) == Rows(t)[k + 1].status # "NO_ROW"

\* chunk_records[k] holds the record's id
chunk_id(t, k) == Rows(t)[k + 1].tracked

\* download, conversion, probe or pre-trim failed
PrepareRaises(t) ==
    /\ pc[t] = "run"
    /\ use_chunk_tracking(t)
    /\ Except(t, "error")
    /\ UNCHANGED <<system_config, video_chunks, rowlock, synth_requests, cancel_seen>>

\* VideoProductionOrchestrator: CHUNK_LIMIT, INDUSTRY_MAX_DURATION and the
\* ceiling of the demo tier (video_orchestrator.py, lines 207-208 and 233)
CHUNK_LIMIT == 9

INDUSTRY_MAX_DURATION == 90

DEMO_MAX_DURATION == 20

\* validate_submission, lines 225-241: TRUE when no error is raised
validate_submission(tier, d) ==
    IF tier = "demo" THEN ~(d > DEMO_MAX_DURATION)
    ELSE IF tier = "industry" THEN ~(d > INDUSTRY_MAX_DURATION)
    ELSE ~(d > CHUNK_LIMIT)

\* durations a probe can return, in seconds: within every ceiling, above the
\* demo ceiling, above the industry ceiling
Durations == {9, 21, 91}

\* an empty video, and the durations above
ProbedDurations == {0} \cup Durations

\* videos within every ceiling
ShortDurations == {0, CHUNK_LIMIT}

\* lines 357-369: num_chunks is ceil(duration / chunk_duration), less one when
\* the last chunk is short and not the only one: 0 for an empty video, and
\* for any other duration whatever count the job's chunk_duration gives
ChunkCounts(d, maxn) == IF d = 0 THEN {0} ELSE 1..maxn

\* the chunks of a run in which the writes to video_chunks may fail and long
\* exception texts occur: the first two; the chunks after them can still
\* fail, be cancelled or complete
FaultyChunks == {0, 1}

FaultsAt(t, faults) == faults /\ cur[t].i \in FaultyChunks

\* lines 249-374: the inputs are fetched, the duration is probed and never
\* validated, the number of chunks is computed
CountRunChunks(t, maxn, probed) ==
    /\ pc[t] = "run"
    /\ use_chunk_tracking(t)
    /\ \E d \in probed : \E n \in ChunkCounts(d, maxn) :
          cur' = [cur EXCEPT ![t].num_chunks = n, ![t].i = 0, ![t].duration = d]
    /\ Goto(t, "chunk_insert")
    /\ UNCHANGED <<system_config, video_jobs, generations, video_chunks, rowlock,
                   synth_requests, cancel_seen>>

\* lines 376-387: one iteration of the insert loop; the insert returns the
\* record, returns no data (the record is in the table, chunk_records holds
\* None) or raises (no record, chunk_records holds None)
CreateChunks(t, faults) ==
    /\ pc[t] = "chunk_insert"
    /\ cur[t].i < cur[t].num_chunks
    /\ \E row \in (IF FaultsAt(t, faults) THEN {PendingChunk, UnknownChunk, NoRow}
                    ELSE {PendingChunk}) :
          video_chunks' = [video_chunks EXCEPT ![cur[t].job][t] = Append(@, row)]
    /\ cur' = [cur EXCEPT ![t].i = @ + 1]
    /\ Goto(t, "chunk_insert")
    /\ UNCHANGED <<system_config, video_jobs, generations, rowlock,
                   synth_requests, cancel_seen>>

\* lines 400-406: generation -> processing, progress 10
StartChunks(t) ==
    /\ pc[t] = "chunk_insert"
    /\ cur[t].i = cur[t].num_chunks
    /\ generations' = SetGenStage(cur[t].job, "processing", 10)
    /\ cur' = [cur EXCEPT ![t].i = 0]
    /\ Goto(t, "chunk_probe")
    /\ UNCHANGED <<system_config, video_jobs, video_chunks, rowlock,
                   synth_requests, cancel_seen>>

\* ------------------------------------- process_job_with_chunks, lines 409-753
UpdateRow(t, k, row) ==
    [video_chunks EXCEPT ![cur[t].job][t][k + 1] = row]

\* line 416: for j in range(i, num_chunks)
cancel_range(i) == i

\* lines 411-414: the generation's status is read at the start of iteration
\* i and is 'cancelled'
CancelSeenAtChunk(t) ==
    /\ pc[t] = "chunk_probe"
    /\ cur[t].i < cur[t].num_chunks
    /\ GenCancelled(cur[t].job)
    /\ cancel_seen' = [cancel_seen EXCEPT ![t] = cur[t].i]
    /\ cur' = [cur EXCEPT ![t].j = cancel_range(cur[t].i)]
    /\ Goto(t, "cancel_mark")
    /\ UNCHANGED <<system_config, video_jobs, generations, video_chunks, rowlock,
                   synth_requests>>

\* lines 416-421: one iteration of the loop that marks the remaining records
\* FAILED (a record without id is passed over)
CancelledAtChunk(t) ==
    /\ pc[t] = "cancel_mark"
    /\ cur[t].j < cur[t].num_chunks
    /\ video_chunks' =
          IF chunk_id(t, cur[t].j)
          THEN UpdateRow(t, cur[t].j,
                         [Rows(t)[cur[t].j + 1] EXCEPT !.status = "FAILED",
                                                       !.error_message = CancelMsg,
                                                       !.error_len = 17])
          ELSE video_chunks
    /\ cur' = [cur EXCEPT ![t].j = @ + 1]
    /\ Goto(t, "cancel_mark")
    /\ UNCHANGED <<system_config, video_jobs, generations, rowlock,
                   synth_requests, cancel_seen>>

\* line 422: the exception reaches worker_loop's handler
CancelRaises(t) ==
    /\ pc[t] = "cancel_mark"
    /\ cur[t].j = cur[t].num_chunks
    /\ Except(t, PipelineCancelMsg)
    /\ UNCHANGED <<system_config, video_chunks, rowlock, synth_requests, cancel_seen>>

\* the requests of process_job_with_chunks that no try of the function
\* guards: the update of line 401, the read of line 412, the updates of
\* lines 417, 775, 781 and 804
UnguardedRequest(t) ==
    \/ pc[t] = "chunk_insert" /\ cur[t].i = cur[t].num_chunks /\ GenLinked(cur[t].job)
    \/ pc[t] = "chunk_probe" /\ cur[t].i < cur[t].num_chunks /\ GenLinked(cur[t].job)
    \/ pc[t] = "cancel_mark" /\ cur[t].j < cur[t].num_chunks /\ chunk_id(t, cur[t].j)
    \/ pc[t] \in {"cost", "stitching"} /\ GenLinked(cur[t].job)
    \/ pc[t] = "stitch" /\ GenLinked(cur[t].job)

\* an unguarded request raises: the exception reaches worker_loop's handler
RequestRaises(t, faults) ==
    /\ faults
    /\ UnguardedRequest(t)
    /\ pc[t] \in {"chunk_probe", "cancel_mark"} => cur[t].i \in FaultyChunks
    /\ Except(t, "error")
    /\ UNCHANGED <<system_config, video_chunks, rowlock, synth_requests, cancel_seen>>

\* lines 411-425: the status read is not 'cancelled' (no read without a
\* generation)
ChunkNotCancelled(t) ==
    /\ pc[t] = "chunk_probe"
    /\ cur[t].i < cur[t].num_chunks
    /\ ~GenCancelled(cur[t].job)
    /\ Goto(t, "chunk_start")
    /\ UNCHANGED <<system_config, video_jobs, generations, video_chunks, rowlock,
                   cur, synth_requests, cancel_seen>>

\* lines 429-432: chunk i -> PROCESSING, when the record's id is known
ChunkStart(t) ==
    /\ pc[t] = "chunk_start"
    /\ video_chunks' = IF chunk_id(t, cur[t].i)
                       THEN UpdateRow(t, cur[t].i, [Rows(t)[cur[t].i + 1] EXCEPT !.status = "PROCESSING"])
                       ELSE video_chunks
    /\ Goto(t, "chunk_progress")
    /\ UNCHANGED <<system_config, video_jobs, generations, rowlock, cur,
                   synth_requests, cancel_seen>>

\* lines 435-440: the progress of the chunk's start
ChunkStartProgress(t) ==
    /\ pc[t] = "chunk_progress"
    /\ generations' = SetGenProgress(cur[t].job, chunk_progress(cur[t].i, cur[t].num_chunks))
    /\ Goto(t, "chunk_submit")
    /\ UNCHANGED <<system_config, video_jobs, video_chunks, rowlock, cur,
                   synth_requests, cancel_seen>>

\* lines 442-550: slice, upload, submit; the request id is stored when the
\* record's id is known and the update succeeds
ChunkSubmit(t, faults) ==
    /\ pc[t] = "chunk_submit"
    /\ synth_requests' = [synth_requests EXCEPT ![t] = @ \cup {cur[t].i}]
    /\ \E stored \in (IF FaultsAt(t, faults) THEN BOOLEAN ELSE {TRUE}) :
          video_chunks' = IF chunk_id(t, cur[t].i) /\ stored
                          THEN UpdateRow(t, cur[t].i, [Rows(t)[cur[t].i + 1] EXCEPT !.fal_request_id = TRUE])
                          ELSE video_chunks
    /\ Goto(t, "chunk_poll")
    /\ UNCHANGED <<system_config, video_jobs, generations, rowlock, cur, cancel_seen>>

\* line 696: error_msg = str(e)[:500]
ErrLimit == 500

Truncate(len) == IF len > ErrLimit THEN ErrLimit ELSE len

\* lengths of the exception texts a step can raise
ExcLens == {40, 501}

ShortOnly == {40}

\* the chunk record after the except handler's update (lines 721-744 or 748-751)
FailedRow(row, len) ==
    [row EXCEPT !.status = "FAILED", !.error_message = "chunk error",
                !.error_len = Truncate(len)]

\* the positions of the chunk's try block (lines 427-693) in which a step
\* other than a write to the tables can raise, and those in which a write
\* to the tables is the next step
RaisingSteps == {"chunk_submit", "chunk_poll"}

WritingSteps == {"chunk_start", "chunk_progress", "chunk_done"}

\* lines 695-753: a step of chunk i raised; the chunk is marked FAILED when
\* the record's id is known.  The step can be the update of line 430 or of
\* line 437, or create_signed_url (line 628), which follows the upload of
\* the muxed segment (line 623) and precedes final_segments.append (line 683)
ChunkFails(t, faults) ==
    /\ \/ pc[t] \in RaisingSteps
       \/ FaultsAt(t, faults) /\ pc[t] \in {"chunk_start", "chunk_progress"}
    /\ \E len \in (IF FaultsAt(t, faults) THEN ExcLens ELSE ShortOnly) :
          video_chunks' = IF chunk_id(t, cur[t].i)
                          THEN UpdateRow(t, cur[t].i, FailedRow(Rows(t)[cur[t].i + 1], len))
                          ELSE video_chunks
    /\ \E uploaded \in (IF FaultsAt(t, faults) /\ pc[t] = "chunk_poll" THEN BOOLEAN
                         ELSE {FALSE}) :
          cur' = [cur EXCEPT ![t].i = @ + 1,
                             ![t].segments_uploaded =
                                 IF uploaded THEN @ \cup {cur[t].i} ELSE @]
    /\ Goto(t, "chunk_probe")
    /\ UNCHANGED <<system_config, video_jobs, generations, rowlock,
                   synth_requests, cancel_seen>>

\* lines 744-751: a step of chunk i raised, the handler's update raised and
\* the fallback update at line 748, which no try guards, raised too: the
\* exception leaves the loop and reaches worker_loop's handler
ChunkFailWriteRaises(t, faults) ==
    /\ FaultsAt(t, faults)
    /\ pc[t] \in RaisingSteps \cup WritingSteps
    /\ chunk_id(t, cur[t].i)
    /\ Except(t, "error")
    /\ UNCHANGED <<system_config, video_chunks, rowlock, synth_requests, cancel_seen>>

\* line 620: outputs/<generation_id or job_id>/chunk_NNN.mp4
chunk_output_key(j, k) ==
    [prefix |-> "outputs", owner |-> IF GenLinked(j) THEN "generation" ELSE "job",
     id |-> j, index |-> k]

\* the URL that poll_status returned (line 555)
kling_video_url(j, k) ==
    [prefix |-> "synthesis", owner |-> "request", id |-> j, index |-> k]

\* the update as it would be with the synthesis service's URL stored
video_url_raw(j, k) == kling_video_url(j, k)

\* lines 647 and 675: "video_url": chunk_video_url or chunk_output_key
video_url_stored(j, k) == chunk_output_key(j, k)

\* the chunk record after the update of lines 643-664
CompletedRow(row, j, k) ==
    [row EXCEPT !.status = "COMPLETED", !.video_url = video_url_stored(j, k),
                !.credits_charged = 1, !.fal_request_id = TRUE]

\* line 676: f"Database update error: {error_str[:200]}"
MinimalPrefixLen == 23

MinimalLimit == 200

\* the chunk record after the minimal update of lines 673-678; len is the
\* length of the text of the exception that the full update raised
MinimalRow(row, j, k, len) ==
    [row EXCEPT !.status = "COMPLETED", !.video_url = video_url_stored(j, k),
                !.error_message = "Database update error",
                !.error_len = MinimalPrefixLen + (IF len > MinimalLimit THEN MinimalLimit ELSE len)]

\* the append as it would be inside the try of the record's update
appended_when_recorded(upd) == upd # "none"

\* line 683: final_segments.append(segment_path) follows the update of the
\* record and its except branches, whatever became of the update
appended(upd) == TRUE

\* lines 555-683: poll, download, audio slice, mux, segment upload succeeded;
\* the full update, the minimal update, or neither reaches the record; the
\* segment joins final_segments
ChunkCompletes(t, faults) ==
    /\ pc[t] = "chunk_poll"
    /\ \E upd \in (IF FaultsAt(t, faults) THEN {"full", "minimal", "none"} ELSE {"full"}) :
       \E len \in (IF upd = "minimal" /\ chunk_id(t, cur[t].i) THEN ExcLens ELSE ShortOnly) :
          LET j == cur[t].job
              k == cur[t].i
              row == Rows(t)[k + 1]
              written == IF chunk_id(t, k) /\ upd = "full" THEN CompletedRow(row, j, k)
                         ELSE IF chunk_id(t, k) /\ upd = "minimal" THEN MinimalRow(row, j, k, len)
                         ELSE row
          IN  /\ video_chunks' = UpdateRow(t, k, written)
              /\ cur' = [cur EXCEPT
                    ![t].final_segments = IF appended(upd) THEN Append(@, k) ELSE @,
                    ![t].segments_uploaded = @ \cup {k},
                    ![t].segments_signed = @ \cup {k}]
    /\ Goto(t, "chunk_done")
    /\ UNCHANGED <<system_config, video_jobs, generations, rowlock,
                   synth_requests, cancel_seen>>

\* lines 685-693: the progress after the chunk; the loop goes on
ChunkCompletedProgress(t) ==
    /\ pc[t] = "chunk_done"
    /\ generations' = SetGenProgress(cur[t].job, chunk_progress(cur[t].i + 1, cur[t].num_chunks))
    /\ cur' = [cur EXCEPT ![t].i = @ + 1]
    /\ Goto(t, "chunk_probe")
    /\ UNCHANGED <<system_config, video_jobs, video_chunks, rowlock,
                   synth_requests, cancel_seen>>

\* lines 695-753 after the progress write of lines 686-691 raised: the
\* handler marks the chunk FAILED, whatever the record's update had written,
\* and the loop continues; the segment stays in final_segments
ProgressWriteRaises(t, faults) ==
    /\ FaultsAt(t, faults)
    /\ pc[t] = "chunk_done"
    /\ \E len \in ExcLens :
          video_chunks' = IF chunk_id(t, cur[t].i)
                          THEN UpdateRow(t, cur[t].i, FailedRow(Rows(t)[cur[t].i + 1], len))
                          ELSE video_chunks
    /\ cur' = [cur EXCEPT ![t].i = @ + 1]
    /\ Goto(t, "chunk_probe")
    /\ UNCHANGED <<system_config, video_jobs, generations, rowlock,
                   synth_requests, cancel_seen>>

\* ------------------------------------- process_job_with_chunks, lines 755-831
\* the loop is over and no segment was produced
NoChunkCompleted(t) ==
    /\ pc[t] = "chunk_probe"
    /\ cur[t].i = cur[t].num_chunks
    /\ Len(cur[t].final_segments) = 0
    /\ Except(t, "No chunks completed successfully")
    /\ UNCHANGED <<system_config, video_chunks, rowlock, synth_requests, cancel_seen>>

\* lines 762-768: the COMPLETED chunk records of job j, whichever run
\* inserted them
CompletedOf(j) ==
    {x \in UNION {{<<j, u, k>> : k \in 1..Len(video_chunks[j][u])} : u \in Ticks} :
        video_chunks[x[1]][x[2]][x[3]].status = "COMPLETED"}

RECURSIVE SumCharged(_)
SumCharged(S) ==
    IF S = {} THEN 0
    ELSE LET x == CHOOSE y \in S : TRUE
         IN  video_chunks[x[1]][x[2]][x[3]].credits_charged + SumCharged(S \ {x})

\* lines 759-772: the credits of the COMPLETED records are read, or, when the
\* query raises or a COMPLETED record has no credits_charged (sum() raises on
\* None), one charge per segment is counted
CostQuery(t, faults) ==
    /\ pc[t] = "chunk_probe"
    /\ cur[t].i = cur[t].num_chunks
    /\ Len(cur[t].final_segments) # 0
    /\ \E query_ok \in (IF faults THEN BOOLEAN ELSE {TRUE}) :
          LET done == CompletedOf(cur[t].job)
              summable == \A x \in done :
                             video_chunks[x[1]][x[2]][x[3]].credits_charged # NoCredits
          IN  cur' = [cur EXCEPT ![t].total_credits_charged =
                         IF query_ok /\ summable THEN SumCharged(done)
                         ELSE Len(cur[t].final_segments) * 1]
    /\ Goto(t, "cost")
    /\ UNCHANGED <<system_config, video_jobs, generations, video_chunks, rowlock,
                   synth_requests, cancel_seen>>

\* lines 774-778: cost_credits is written
StitchCredits(t) ==
    /\ pc[t] = "cost"
    /\ generations' =
          IF GenLinked(cur[t].job)
          THEN [generations EXCEPT ![cur[t].job].cost_credits = cur[t].total_credits_charged]
          ELSE generations
    /\ Goto(t, "stitching")
    /\ UNCHANGED <<system_config, video_jobs, video_chunks, rowlock, cur,
                   synth_requests, cancel_seen>>

\* lines 780-785: progress 90, stage stitching
StitchProgress(t) ==
    /\ pc[t] = "stitching"
    /\ generations' = SetGenProgress(cur[t].job, 90)
    /\ Goto(t, "stitch")
    /\ UNCHANGED <<system_config, video_jobs, video_chunks, rowlock, cur,
                   synth_requests, cancel_seen>>

\* lines 787-800: ffmpeg fails to concatenate the segments (a single segment
\* is not concatenated)
StitchRaises(t) ==
    /\ pc[t] = "stitch"
    /\ Len(cur[t].final_segments) > 1
    /\ Except(t, "error")
    /\ UNCHANGED <<system_config, video_chunks, rowlock, synth_requests, cancel_seen>>

\* lines 787-800: several segments are concatenated in the order of the
\* list; a single one is the final file itself
stitch(final_segments) ==
    [segments |-> final_segments, concatenated |-> Len(final_segments) > 1]

\* lines 787-807: the segments are stitched; progress 95, stage finalizing
StitchFinalizing(t) ==
    /\ pc[t] = "stitch"
    /\ generations' = SetGenProgress(cur[t].job, 95)
    /\ cur' = [cur EXCEPT ![t].final_video = stitch(cur[t].final_segments)]
    /\ Goto(t, "finalizing")
    /\ UNCHANGED <<system_config, video_jobs, video_chunks, rowlock,
                   synth_requests, cancel_seen>>

\* lines 810-813: the final file does not exist or is empty
FinalFileRaises(t) ==
    /\ pc[t] = "finalizing"
    /\ Except(t, "error")
    /\ UNCHANGED <<system_config, video_chunks, rowlock, synth_requests, cancel_seen>>

\* lines 815-831: the final artifact is copied out of the scratch directory
\* before it goes; the pipeline returns
StitchReturns(t) ==
    /\ pc[t] = "finalizing"
    /\ cur' = [cur EXCEPT ![t].path_exists = TRUE]
    /\ Goto(t, "upload")
    /\ UNCHANGED <<system_config, video_jobs, generations, video_chunks, rowlock,
                   synth_requests, cancel_seen>>

\* ------------------------- VideoProductionOrchestrator.process_job, 425-539
\* a download fails, validate_submission rejects the duration, or a later
\* step raises
LegacyRaises(t) ==
    /\ pc[t] = "run"
    /\ ~use_chunk_tracking(t)
    /\ Except(t, "error")
    /\ UNCHANGED <<system_config, video_chunks, rowlock, synth_requests, cancel_seen>>

\* lines 441-539: the duration passes validate_submission; one chunk is
\* submitted and muxed; the path returned lies in the scratch directory, which
\* is removed when process_job returns
LegacyReturns(t) ==
    /\ pc[t] = "run"
    /\ ~use_chunk_tracking(t)
    /\ synth_requests' = [synth_requests EXCEPT ![t] = @ \cup {0}]
    /\ \E d \in Durations :
          /\ validate_submission(video_jobs[cur[t].job].tier, d)
          /\ cur' = [cur EXCEPT ![t].path_exists = FALSE, ![t].duration = d]
    /\ Goto(t, "upload")
    /\ UNCHANGED <<system_config, video_jobs, generations, video_chunks, rowlock,
                   cancel_seen>>

\* ------------------------------------------------ worker_loop, lines 171-214
\* the file is missing, or the upload of the final artifact fails
UploadRaises(t) ==
    /\ pc[t] = "upload"
    /\ Except(t, "error")
    /\ UNCHANGED <<system_config, video_chunks, rowlock, synth_requests, cancel_seen>>

\* lines 175-196: the artifact is uploaded and the job marked COMPLETED; the
\* update of the linked generation is the next request
Complete(t) ==
    /\ pc[t] = "upload"
    /\ cur[t].path_exists
    /\ video_jobs' = mark_job_complete(cur[t].job)
    /\ IF GenLinked(cur[t].job)
       THEN Goto(t, "completing") /\ UNCHANGED cur
       ELSE EndTick(t, "completed")
    /\ UNCHANGED <<system_config, generations, video_chunks, rowlock,
                   synth_requests, cancel_seen>>

\* lines 199-208: generation -> completed, progress 100
CompleteGeneration(t) ==
    /\ pc[t] = "completing"
    /\ generations' = SetGenStage(cur[t].job, "completed", 100)
    /\ Goto(t, "project")
    /\ UNCHANGED <<system_config, video_jobs, video_chunks, rowlock, cur,
                   synth_requests, cancel_seen>>

\* lines 210-214: the generation's project is read and marked completed
\* (the table projects is not modelled); worker_loop returns
CompleteProject(t) ==
    /\ pc[t] = "project"
    /\ EndTick(t, "completed")
    /\ UNCHANGED <<system_config, video_jobs, generations, video_chunks, rowlock,
                   synth_requests, cancel_seen>>

\* lines 199-219: the update of the generation, the read of its project
\* (.single()) or the update of the project raises inside the try: the
\* handler marks the job, COMPLETED a moment ago, FAILED
CompleteGenerationRaises(t, faults) ==
    /\ faults
    /\ pc[t] \in {"completing", "project"}
    /\ Except(t, "error")
    /\ UNCHANGED <<system_config, video_chunks, rowlock, synth_requests, cancel_seen>>

\* ------------------------------------------------------------ environment
\* the user cancels a generation that has not ended
UserCancel(j) ==
    /\ GenLinked(j)
    /\ generations[j].status \in {"pending", "processing"}
    /\ generations' = [generations EXCEPT ![j].status = "cancelled",
                                           ![j].cancel_requested = TRUE]
    /\ UNCHANGED <<system_config, video_jobs, video_chunks, rowlock, pc, cur,
                   outcome, synth_requests, cancel_seen>>

\* the analyses of job j that have not answered yet
InFlight(j) == analyzing[j].running + analyzing[j].results

\* media_analyzer.analyze_media, lines 99-114: an analysis of job j starts,
\* whatever the job's status and whatever other analyses of the job are
\* doing; progress 5 is written to the linked generation, or the read or the
\* update raises, the except branch prints and the analysis goes on
AnalyzeStart(j, faults) ==
    /\ analyzing' = [analyzing EXCEPT ![j].running = @ + 1]
    /\ \E raises \in (IF faults /\ GenLinked(j) THEN BOOLEAN ELSE {FALSE}) :
          generations' = IF raises THEN generations ELSE SetGenProgress(j, 5)
    /\ UNCHANGED <<system_config, video_jobs, video_chunks, rowlock, pc, cur,
                   outcome, synth_requests, cancel_seen>>

\* media_analyzer.analyze_media, lines 396-409: the results are written to
\* video_jobs; without a generation the webhook answers "Analysis Complete"
\* (lines 551-556)
AnalyzeOk(j) ==
    /\ analyzing[j].running > 0
    /\ analyzing' = IF GenLinked(j)
                    THEN [analyzing EXCEPT ![j].running = @ - 1, ![j].results = @ + 1]
                    ELSE [analyzing EXCEPT ![j].running = @ - 1, ![j].answer = "complete"]
    /\ video_jobs' = [video_jobs EXCEPT ![j].analysis_status = "ANALYZED",
                                        ![j].chunk_duration = "set",
                                        ![j].status = "ANALYZED"]
    /\ UNCHANGED <<system_config, generations, video_chunks, rowlock, pc, cur,
                   outcome, synth_requests, cancel_seen>>

\* media_analyzer.analyze_media, lines 411-416: progress 10 is written to
\* the generation; the webhook answers "Analysis Complete"
AnalyzeOkProgress(j) ==
    /\ analyzing[j].results > 0
    /\ analyzing' = [analyzing EXCEPT ![j].results = @ - 1, ![j].answer = "complete"]
    /\ generations' = SetGenProgress(j, 10)
    /\ UNCHANGED <<system_config, video_jobs, video_chunks, rowlock, pc, cur,
                   outcome, synth_requests, cancel_seen>>

\* media_analyzer.analyze_media, lines 397-425: the read or the update of
\* video_jobs, or the update of the generation, raises; the except branch
\* prints and the results are returned all the same: the webhook answers
\* "Analysis Complete"
AnalyzeOkWriteRaises(j, faults) ==
    /\ faults
    /\ \/ /\ analyzing[j].running > 0
          /\ analyzing' = [analyzing EXCEPT ![j].running = @ - 1, ![j].answer = "complete"]
       \/ /\ analyzing[j].results > 0
          /\ analyzing' = [analyzing EXCEPT ![j].results = @ - 1, ![j].answer = "complete"]
    /\ UNCHANGED <<system_config, video_jobs, generations, video_chunks, rowlock, pc,
                   cur, outcome, synth_requests, cancel_seen>>

\* media_analyzer.api.webhook, lines 557-578: the analysis raised; the job is
\* marked FAILED and the webhook answers with the error
AnalyzeFails(j) ==
    /\ analyzing[j].running > 0
    /\ analyzing' = [analyzing EXCEPT ![j].running = @ - 1, ![j].answer = "error"]
    /\ video_jobs' = [video_jobs EXCEPT ![j].analysis_status = "FAILED",
                                        ![j].status = "FAILED",
                                        ![j].error_message = "error"]
    /\ UNCHANGED <<system_config, generations, video_chunks, rowlock, pc, cur,
                   outcome, synth_requests, cancel_seen>>

\* media_analyzer.api.webhook, lines 562-575: the analysis raised and the
\* update that marks the job FAILED raised too ("Failed to update DB")
AnalyzeFailsWriteRaises(j, faults) ==
    /\ faults
    /\ analyzing[j].running > 0
    /\ analyzing' = [analyzing EXCEPT ![j].running = @ - 1, ![j].answer = "error"]
    /\ UNCHANGED <<system_config, video_jobs, generations, video_chunks, rowlock, pc,
                   cur, outcome, synth_requests, cancel_seen>>

\* one step of tick t, one request to the tables at most; the video yields at
\* most maxn chunks and lasts one of the 'probed' durations; 'faults' tells whether long exception texts occur,
\* whether the requests to video_chunks and generations may fail or return
\* no data, whether the read of the limit may fail, and whether a chunk can
\* fail after its segment was uploaded.  The queue manager's other requests
\* (the count, the fetch, mark_job_failed) are taken to succeed; a failing
\* mark_job_complete is UploadRaises
TickStep(t, maxn, probed, faults) ==
    /\ \/ ReadLimit(t, faults) \/ Saturated(t) \/ CapacityOk(t)
       \/ RpcSelect(t) \/ RpcReturn(t) \/ FetchFallback(t) \/ QueueEmpty(t)
       \/ LogChunkDurationRaises(t)
       \/ CancelSeenBeforeDispatch(t) \/ CancelCheckRaises(t, faults)
       \/ CancelledBeforeDispatch(t)
       \/ AnalysisGate(t) \/ EnterTry(t)
       \/ TryRaises(t) \/ Dispatch(t)
       \/ ExceptGeneration(t) \/ ExceptGenerationRaises(t, faults)
       \/ PrepareRaises(t) \/ CountRunChunks(t, maxn, probed)
       \/ CreateChunks(t, faults) \/ StartChunks(t)
       \/ CancelSeenAtChunk(t) \/ CancelledAtChunk(t) \/ CancelRaises(t)
       \/ RequestRaises(t, faults)
       \/ ChunkNotCancelled(t) \/ ChunkStart(t) \/ ChunkStartProgress(t)
       \/ ChunkSubmit(t, faults)
       \/ ChunkFails(t, faults) \/ ChunkFailWriteRaises(t, faults)
       \/ ChunkCompletes(t, faults) \/ ChunkCompletedProgress(t)
       \/ ProgressWriteRaises(t, faults)
       \/ NoChunkCompleted(t) \/ CostQuery(t, faults)
       \/ StitchCredits(t) \/ StitchProgress(t)
       \/ StitchRaises(t) \/ StitchFinalizing(t)
       \/ FinalFileRaises(t) \/ StitchReturns(t)
       \/ LegacyRaises(t) \/ LegacyReturns(t)
       \/ UploadRaises(t) \/ Complete(t)
       \/ CompleteGeneration(t) \/ CompleteProject(t)
       \/ CompleteGenerationRaises(t, faults)
    /\ UNCHANGED analyzing

\* the job was created and its analysis has not been recorded
AwaitsAnalysis(j) == video_jobs[j].analysis_status = "PENDING_ANALYSIS"

\* the user and the analyzer, acting on the jobs of 'jobs'; 'again' tells
\* whether the webhook is called for jobs that were analysed before (the
\* intake calls it once, for the job it created); 'most' is the number of
\* requests for one job that the callers have open together; 'faults' tells
\* whether the analyzer's writes may fail
Environment(jobs, again, most, faults) ==
    \/ \E j \in jobs : UserCancel(j) /\ UNCHANGED analyzing
    \/ \E j \in jobs : /\ again \/ AwaitsAnalysis(j)
                       /\ InFlight(j) < most
                       /\ AnalyzeStart(j, faults)
    \/ \E j \in jobs : AnalyzeOk(j)
    \/ \E j \in jobs : AnalyzeOkProgress(j)
    \/ \E j \in jobs : AnalyzeOkWriteRaises(j, faults)
    \/ \E j \in jobs : AnalyzeFails(j)
    \/ \E j \in jobs : AnalyzeFailsWriteRaises(j, faults)

\* the tick has not been invoked yet, or its invocation has not ended
Once(t) == pc[t] # "idle" \/ outcome[t] = NoOutcome

\* every tick is one invocation of worker_loop, overlapping the others or
\* following them; single-chunk videos, writes succeed
Next ==
    /\ \/ \E t \in Ticks : Once(t) /\ TickStep(t, 1, ShortDurations, FALSE)
       \/ Environment(Jobs, FALSE, 1, FALSE)
    /\ UNCHANGED fetchVars
    /\ UNCHANGED tempoVars
    /\ UNCHANGED calcVars

\* the limit is configured (1), so that the capacity gate can close, and
\* every job has its generation
InitCapped ==
    /\ Init
    /\ system_config = 1
    /\ \A j \in Jobs : video_jobs[j].generation_id

Spec == InitCapped /\ [][Next]_vars

\* one job in the queue (job 1), the other rows being claimed elsewhere and
\* left alone
InitOne ==
    /\ Init
    /\ \A j \in Jobs \ {1} : video_jobs[j].status = "PROCESSING"

\* one tick at a time (tick 1), no limit configured; guarded writes to
\* video_chunks may fail
InitRun ==
    /\ InitOne
    /\ system_config = NoConfig

NextRun ==
    /\ \/ TickStep(1, MaxChunks, ProbedDurations, TRUE)
       \/ Environment({1}, FALSE, 1, TRUE)
    /\ UNCHANGED fetchVars
    /\ UNCHANGED tempoVars
    /\ UNCHANGED calcVars

SpecRun == InitRun /\ [][NextRun]_vars

\* one tick at a time (tick 1) on single-chunk videos, whatever the configured
\* limit; the webhook is called for job 1 at any moment, any number of times,
\* one request after the other
NextAnalysis ==
    /\ \/ TickStep(1, 1, ShortDurations, TRUE)
       \/ Environment({1}, TRUE, 1, TRUE)
    /\ UNCHANGED fetchVars
    /\ UNCHANGED tempoVars
    /\ UNCHANGED calcVars

SpecAnalysis == InitOne /\ [][NextAnalysis]_vars

\* the webhook alone: it is called for job 1 at any moment, any number of
\* times, a request being served while others wait (the function serves its
\* requests in containers of their own); no tick runs
NextWebhook ==
    /\ Environment({1}, TRUE, MaxAnalyses, TRUE)
    /\ UNCHANGED fetchVars
    /\ UNCHANGED tempoVars
    /\ UNCHANGED calcVars

SpecWebhook == InitOne /\ [][NextWebhook]_vars

\* the scheduler invokes worker_loop again and again (one invocation at a
\* time here, tick 1) on a queue of several jobs; single-chunk videos, writes
\* succeed
Ticking ==
    /\ TickStep(1, 1, ShortDurations, FALSE)
    /\ UNCHANGED fetchVars
    /\ UNCHANGED tempoVars
    /\ UNCHANGED calcVars

NextQueue ==
    \/ Ticking
    \/ /\ Environment(Jobs, FALSE, 1, FALSE)
       /\ UNCHANGED fetchVars
       /\ UNCHANGED tempoVars
       /\ UNCHANGED calcVars

\* every invocation that was started takes its next step, and a new one is
\* started when the last has ended: the schedule is periodic and every step
\* has a timeout; the user and the analyzer act when they please
SpecQueue == Init /\ [][NextQueue]_vars /\ WF_vars(Ticking)


\* ------------------------------------------- priority fetch on a fixed set
FetchRows == [tier : Tiers, is_first_time : BOOLEAN, created_at : 1..MaxCreatedAt]

SchedQuiet ==
    /\ system_config = NoConfig
    /\ video_jobs = [j \in Jobs |->
          [status |-> "COMPLETED", tier |-> "demo", is_first_time |-> FALSE,
           created_at |-> j, analysis_status |-> "ANALYZED", chunk_duration |-> "set",
           generation_id |-> TRUE, error_message |-> ""]]
    /\ generations = [j \in Jobs |-> InitGeneration]
    /\ video_chunks = [j \in Jobs |-> [t \in Ticks |-> <<>>]]
    /\ rowlock = {}
    /\ pc = [t \in Ticks |-> "idle"]
    /\ cur = [t \in Ticks |-> IdleCur]
    /\ outcome = [t \in Ticks |-> NoOutcome]
    /\ synth_requests = [t \in Ticks |-> {}]
    /\ cancel_seen = [t \in Ticks |-> NotSeen]
    /\ analyzing = [j \in Jobs |-> NoAnalyses]

InitFetch ==
    /\ SchedQuiet
    /\ TempoIdle
    /\ CalcIdle
    /\ pending_set \in {{a, b, c} : a \in FetchRows, b \in FetchRows, c \in FetchRows} \cup {{}}
    /\ fetched = NoFetch

\* fetch_next_job, lines 55-58 and 63: the stored routine answers
FetchViaRpc ==
    /\ \/ /\ pending_set = {}
          /\ fetched' = [NoFetch EXCEPT !.via = "rpc"]
       \/ \E r \in get_next_job(pending_set) :
             fetched' = [via |-> "rpc", found |-> TRUE, row |-> r]
    /\ UNCHANGED pending_set

\* fetch_next_job, lines 59-62: the stored routine raises, the fallback answers
FetchViaFallback ==
    /\ \/ /\ pending_set = {}
          /\ fetched' = [NoFetch EXCEPT !.via = "fallback"]
       \/ \E r \in _fetch_next_job_fallback(pending_set) :
             fetched' = [via |-> "fallback", found |-> TRUE, row |-> r]
    /\ UNCHANGED pending_set

NextFetch ==
    /\ \/ FetchViaRpc
       \/ FetchViaFallback
    /\ UNCHANGED schedVars
    /\ UNCHANGED tempoVars
    /\ UNCHANGED calcVars

SpecFetch == InitFetch /\ [][NextFetch]_vars

\* ------------------------------------------------- number of chunks
\* process_job_with_chunks, lines 357-372 (and generate_chunk_previews,
\* lines 121-136).  duration and chunk_duration are Python floats: the
\* binary64 numbers nearest to the decimal values, which are given here in
\* milliseconds; the arithmetic of lines 360-363 is that of binary64 (53
\* significant bits, round to nearest, ties to even).
\*
\* A binary64 number of the computation is kept exactly, as a whole number of
\* units of 2^-62 s (the spacing of binary64 at 0.001) in four limbs base
\* 2^20, least significant first.
Limb == 2^20

\* Every operator binds its arguments as values (v \in {x}) and hands each
\* intermediate result to one operator, so that nothing is computed twice.

Zero == <<0, 0, 0, 0>>

One == <<1, 0, 0, 0>>

\* the limbs brought back into 0..Limb-1 (a negative limb borrows)
Carry(x) ==
    CHOOSE r \in {LET s2 == v[2] + (v[1] \div Limb)
                      s3 == v[3] + (s2 \div Limb)
                  IN  <<v[1] % Limb, s2 % Limb, s3 % Limb, v[4] + (s3 \div Limb)>> :
                  v \in {x}} : TRUE

BigOf(n) == Carry(<<n, 0, 0, 0>>)

BigAdd(x, y) ==
    CHOOSE r \in {Carry(<<a[1] + b[1], a[2] + b[2], a[3] + b[3], a[4] + b[4]>>) :
                  a \in {x}, b \in {y}} : TRUE

\* x - y for x >= y
BigSub(x, y) ==
    CHOOSE r \in {Carry(<<a[1] - b[1], a[2] - b[2], a[3] - b[3], a[4] - b[4]>>) :
                  a \in {x}, b \in {y}} : TRUE

BigLess(x, y) ==
    \E a \in {x}, b \in {y} :
        \E i \in 1..4 : a[i] < b[i] /\ \A j \in (i + 1)..4 : a[j] = b[j]

\* x * m for a whole number m <= 1024
ScaleLimbs(x, m) ==
    CHOOSE r \in {Carry(<<v[1] * k, v[2] * k, v[3] * k, v[4] * k>>) :
                  v \in {x}, k \in {m}} : TRUE

\* x * Limb^a
RaiseLimbs(x, a) ==
    CHOOSE r \in {<<IF k = 0 THEN v[1] ELSE 0,
                    IF k = 0 THEN v[2] ELSE IF k = 1 THEN v[1] ELSE 0,
                    IF k = 0 THEN v[3] ELSE IF k = 1 THEN v[2] ELSE IF k = 2 THEN v[1] ELSE 0,
                    IF k = 0 THEN v[4] ELSE IF k = 1 THEN v[3] ELSE IF k = 2 THEN v[2]
                    ELSE IF k = 3 THEN v[1] ELSE 0>> :
                  v \in {x}, k \in {a}} : TRUE

\* floor(x / Limb^a)
DropLimbs(x, a) ==
    CHOOSE r \in {<<IF k = 0 THEN v[1] ELSE IF k = 1 THEN v[2] ELSE IF k = 2 THEN v[3]
                    ELSE IF k = 3 THEN v[4] ELSE 0,
                    IF k = 0 THEN v[2] ELSE IF k = 1 THEN v[3] ELSE IF k = 2 THEN v[4] ELSE 0,
                    IF k = 0 THEN v[3] ELSE IF k = 1 THEN v[4] ELSE 0,
                    IF k = 0 THEN v[4] ELSE 0>> :
                  v \in {x}, k \in {a}} : TRUE

\* floor(x / 2^b) for b < 20
DropBits(x, b) ==
    CHOOSE r \in {<<(v[1] \div 2^k) + (v[2] % 2^k) * 2^(20 - k),
                    (v[2] \div 2^k) + (v[3] % 2^k) * 2^(20 - k),
                    (v[3] \div 2^k) + (v[4] % 2^k) * 2^(20 - k),
                    v[4] \div 2^k>> :
                  v \in {x}, k \in {b}} : TRUE

\* x * 2^s (the bits below a limb in two halves) and floor(x / 2^s)
BigShiftLeft(x, s) ==
    CHOOSE r \in {RaiseLimbs(ScaleLimbs(ScaleLimbs(v, 2^((n % 20) \div 2)),
                                        2^((n % 20) - ((n % 20) \div 2))),
                             n \div 20) :
                  v \in {x}, n \in {s}} : TRUE

BigShiftRight(x, s) ==
    CHOOSE r \in {DropBits(DropLimbs(v, n \div 20), n % 20) : v \in {x}, n \in {s}} : TRUE

\* x * k for a whole number k below 2^20
BigTimes(x, k) ==
    CHOOSE r \in {BigAdd(ScaleLimbs(v, n % 1024),
                         BigShiftLeft(ScaleLimbs(v, n \div 1024), 10)) :
                  v \in {x}, n \in {k}} : TRUE

\* quotient and remainder of x by a whole number m, 0 < m <= 1024
BigDivMod(x, m) ==
    CHOOSE r \in {LET t3 == (v[4] % k) * Limb + v[3]
                      t2 == (t3 % k) * Limb + v[2]
                      t1 == (t2 % k) * Limb + v[1]
                  IN  [q |-> <<t1 \div k, t2 \div k, t3 \div k, v[4] \div k>>, r |-> t1 % k] :
                  v \in {x}, k \in {m}} : TRUE

\* the number of significant bits of x
BitLength(x) ==
    CHOOSE r \in {LET top == IF v[4] > 0 THEN 4 ELSE IF v[3] > 0 THEN 3
                             ELSE IF v[2] > 0 THEN 2 ELSE 1
                  IN  20 * (top - 1)
                      + (CHOOSE n \in 0..20 : v[top] < 2^n /\ (n = 0 \/ v[top] >= 2^(n - 1))) :
                  v \in {x}} : TRUE

\* the significand q goes up when the rest of x is above half of 2^s, or is
\* the half and q is odd
RoundsUp(rest, half, q) ==
    \E r \in {rest}, h \in {half} : BigLess(h, r) \/ (r = h /\ q[1] % 2 = 1)

\* x rounded to the multiple of 2^s next to it, q being floor(x / 2^s)
RoundFrom(x, q, s) ==
    CHOOSE r \in {BigShiftLeft(IF RoundsUp(BigSub(v, BigShiftLeft(w, n)),
                                           BigShiftLeft(One, n - 1), w)
                               THEN BigAdd(w, One) ELSE w, n) :
                  v \in {x}, w \in {q}, n \in {s}} : TRUE

RoundAt(x, s) ==
    CHOOSE r \in {IF n <= 0 THEN v ELSE RoundFrom(v, BigShiftRight(v, n), n) :
                  v \in {x}, n \in {s}} : TRUE

\* the result of an operation: the binary64 number nearest to the exact value
\* x (53 significant bits), the one with the even significand when two are as
\* near
RoundToNearest(x) ==
    CHOOSE r \in {RoundAt(v, BitLength(v) - 53) : v \in {x}} : TRUE

\* ms / 1000 lies in [2^(e-10), 2^(e-9))
Exponent(ms) ==
    CHOOSE n \in 0..16 : 1000 * 2^n <= 1024 * ms /\ 1024 * ms < 1000 * 2^(n + 1)

\* the quotient dm by 1000 rounded to nearest, ties to even, times 2^e
RoundQuotient(dm, e) ==
    CHOOSE r \in {BigShiftLeft(IF 2 * d.r > 1000 \/ (2 * d.r = 1000 /\ d.q[1] % 2 = 1)
                               THEN BigAdd(d.q, One) ELSE d.q, n) :
                  d \in {dm}, n \in {e}} : TRUE

\* the significand of ms / 1000 is ms * 2^(62-e) / 1000, rounded
Significand(ms, e) ==
    CHOOSE r \in {RoundQuotient(BigDivMod(BigShiftLeft(BigOf(m), 62 - n), 1000), n) :
                  m \in {ms}, n \in {e}} : TRUE

\* the float that a decimal number of ms milliseconds is read as
binary64(ms) ==
    CHOOSE r \in {IF m = 0 THEN Zero ELSE Significand(m, Exponent(m)) : m \in {ms}} : TRUE

\* line 359: MIN_CHUNK_DURATION = 3.0
MIN_CHUNK_DURATION == 3000

\* a probed duration and a chunk_duration, in tenths of a second
InitCount ==
    /\ SchedQuiet
    /\ FetchIdle
    /\ TempoIdle
    /\ pretrim = NoPreTrim
    /\ poll = NoPoll
    /\ SideIdle
    /\ \E d \in {100 * k : k \in 0..(MaxDurationMs \div 100)} :
       \E c \in {100 * k : k \in 1..(10 * MaxChunkSeconds)} :
          chunking = [NoChunking EXCEPT !.stage = "request", !.duration = d,
                                        !.chunk_duration = c]

\* duration / chunk_duration <= k for the floats d and c and a whole number
\* k >= 1: the quotient is rounded to k or below exactly when d / c is at most
\* k plus half the spacing of binary64 above k (k's significand is even)
QuotientAtMost(d, c, k) ==
    \E a \in {d}, b \in {c}, n \in {k} :
        \E kc \in {BigTimes(b, n)},
           halfway \in {BigShiftRight(b, 53 - (CHOOSE e \in 0..20 : 2^e <= n /\ n < 2^(e + 1)))} :
            ~BigLess(kc, a) \/ ~BigLess(halfway, BigSub(a, kc))

\* the least k of lo..lo+2 with d / c <= k
LeastCount(d, c, lo) ==
    CHOOSE r \in {CHOOSE k \in l..(l + 2) :
                      /\ QuotientAtMost(a, b, k)
                      /\ k > l => ~QuotientAtMost(a, b, k - 1) :
                  a \in {d}, b \in {c}, l \in {lo}} : TRUE

\* line 360: ceil(duration / chunk_duration); the quotient of the floats lies
\* within a rounding error of the quotient of the decimal numbers
num_chunks_raw(duration, c) ==
    CHOOSE r \in {IF m = 0 THEN 0
                  ELSE LeastCount(binary64(m), binary64(n),
                                  IF m \div n > 1 THEN m \div n ELSE 1) :
                  m \in {duration}, n \in {c}} : TRUE

\* line 361: (num_chunks_raw - 1) * chunk_duration, a float: its sign and its
\* magnitude
last_chunk_start(duration, c) ==
    CHOOSE r \in {[neg |-> n = 0,
                   mag |-> RoundToNearest(BigTimes(binary64(m), IF n = 0 THEN 1 ELSE n - 1))] :
                  n \in {num_chunks_raw(duration, c)}, m \in {c}} : TRUE

\* line 362: duration - last_chunk_start, a float: its sign and its magnitude
last_chunk_duration(duration, c) ==
    CHOOSE r \in {IF s.neg THEN [neg |-> FALSE, mag |-> RoundToNearest(BigAdd(d, s.mag))]
                  ELSE IF BigLess(d, s.mag)
                  THEN [neg |-> TRUE, mag |-> RoundToNearest(BigSub(s.mag, d))]
                  ELSE [neg |-> FALSE, mag |-> RoundToNearest(BigSub(d, s.mag))] :
                  d \in {binary64(duration)}, s \in {last_chunk_start(duration, c)}} : TRUE

\* line 364: x < MIN_CHUNK_DURATION for a float x
below_min_chunk(x) ==
    \E v \in {x} : v.neg \/ BigLess(v.mag, binary64(MIN_CHUNK_DURATION))

\* "Skip last chunk if it would be less than 3 seconds"
num_chunks(duration, c) ==
    CHOOSE r \in {IF below_min_chunk(l) /\ n > 1 THEN n - 1 ELSE n :
                  n \in {num_chunks_raw(duration, c)},
                  l \in {last_chunk_duration(duration, c)}} : TRUE

CountChunks ==
    /\ chunking.stage = "request"
    /\ chunking' = [chunking EXCEPT !.stage = "counted",
                        !.num_chunks = num_chunks(chunking.duration, chunking.chunk_duration)]

NextCount ==
    /\ CountChunks
    /\ UNCHANGED schedVars
    /\ UNCHANGED fetchVars
    /\ UNCHANGED tempoVars
    /\ UNCHANGED <<pretrim, poll>>
    /\ UNCHANGED sideVars

SpecCount == InitCount /\ [][NextCount]_vars

\* ------------------------------------------- tempo-based chunk duration
\* analyze_media, lines 355-394, and api.webhook, lines 534-542.  A bpm is a
\* Python float and the arithmetic of lines 373-392 is that of binary64; the
\* numbers are kept as above, in units of 2^-62.
\*
\* api.webhook, line 538: a user bpm is accepted when 0 < bpm <= 300
BpmLimit == 300

\* the tempo librosa estimates when the request carries a user bpm (unused)
AnyTempo == 120

\* the float of a whole number
Whole(n) == CHOOSE r \in {BigShiftLeft(BigOf(k), 62) : k \in {n}} : TRUE

\* one more bit of a quotient: the rest r of the division by y is doubled
\* and y is taken from it when it fits
DivideStep(s, y) ==
    CHOOSE res \in {IF BigLess(d, c)
                    THEN [r |-> d, q |-> ScaleLimbs(v.q, 2)]
                    ELSE [r |-> BigSub(d, c), q |-> BigAdd(ScaleLimbs(v.q, 2), One)] :
                    v \in {s}, c \in {y}, d \in {ScaleLimbs(s.r, 2)}} : TRUE

RECURSIVE DivideBits(_, _, _)
\* n more bits of the quotient
DivideBits(s, y, n) ==
    CHOOSE res \in {IF k = 0 THEN v ELSE DivideBits(DivideStep(v, c), c, k - 1) :
                    v \in {s}, c \in {y}, k \in {n}} : TRUE

\* the quotient's 53 bits go up when the bit after them is set and either the
\* division left a rest or the 53 bits are odd (round to nearest, ties to even)
DivideRound(s) ==
    CHOOSE res \in {IF v.q[1] % 2 = 1 /\ (v.r # Zero \/ v.q[1] % 4 = 3)
                    THEN BigAdd(BigShiftRight(v.q, 1), One) ELSE BigShiftRight(v.q, 1) :
                    v \in {s}} : TRUE

\* x / y for x / y in [2^t, 2^(t+1)), t >= -10: y is brought under x (a with b
\* the two, b <= a < 2b), the first bit of the quotient is 1 and 53 more follow
DivideAligned(a, b, t) ==
    CHOOSE res \in {BigShiftLeft(DivideRound(s), n + 10) :
                    s \in {DivideBits([r |-> BigSub(a, b), q |-> One], b, 53)},
                    n \in {t}} : TRUE

DivideFrom(x, y, t) ==
    CHOOSE res \in {IF BigLess(a, b) THEN DivideAligned(ScaleLimbs(a, 2), b, n - 1)
                    ELSE DivideAligned(a, b, n) :
                    a \in {IF t < 0 THEN BigShiftLeft(x, 0 - t) ELSE x},
                    b \in {IF t > 0 THEN BigShiftLeft(y, t) ELSE y},
                    n \in {t}} : TRUE

\* the float x / y of two floats x > 0 and y > 0
Divide(x, y) ==
    CHOOSE res \in {DivideFrom(a, b, BitLength(a) - BitLength(b)) :
                    a \in {x}, b \in {y}} : TRUE

\* the float next to x, k places up (down for k < 0), within the binade of x
Nextafter(x, k) ==
    CHOOSE res \in {IF n < 0 THEN BigSub(v, BigShiftLeft(BigOf(0 - n), BitLength(v) - 53))
                    ELSE BigAdd(v, BigShiftLeft(BigOf(n), BitLength(v) - 53)) :
                    v \in {x}, n \in {k}} : TRUE

\* the tempos taken: the whole numbers and, for each number of measures n,
\* the floats next to 80n/3, where 9.0 s hold exactly n measures
Tempos(maxbpm, least) ==
    {Whole(w) : w \in least..maxbpm}
        \cup {Nextafter(Divide(Whole(80 * n), Whole(3)), k) :
                 n \in 1..MaxMeasures, k \in (0 - MaxUlps)..MaxUlps}

\* a request carries a bpm or none; librosa estimates a positive tempo
InitTempo ==
    /\ SchedQuiet
    /\ FetchIdle
    /\ CalcIdle
    /\ \E u \in {NoBpm} \cup Tempos(MaxUserBpm, 0) :
       \E e \in (IF u = NoBpm THEN Tempos(MaxTempo, 1) ELSE {Whole(AnyTempo)}) :
          analysis = [NoAnalysis EXCEPT !.stage = "request", !.user_bpm = u, !.tempo = e]

\* api.webhook, line 538: user_bpm <= 0 or user_bpm > 300
out_of_range(user_bpm) ==
    \E u \in {user_bpm} : u = Zero \/ BigLess(Whole(BpmLimit), u)

\* api.webhook, lines 534-542: "BPM must be between 1 and 300"
WebhookRejects ==
    /\ analysis.stage = "request"
    /\ analysis.user_bpm # NoBpm
    /\ out_of_range(analysis.user_bpm)
    /\ analysis' = [analysis EXCEPT !.stage = "rejected"]

\* analyze_media, lines 355-369: the user's bpm when given and positive,
\* else the estimated tempo
bpm_used(user_bpm, tempo) ==
    IF user_bpm # NoBpm /\ user_bpm # Zero THEN user_bpm ELSE tempo

\* line 373: 60.0 / bpm
seconds_per_beat(bpm) == Divide(Whole(60), bpm)

\* line 378: seconds_per_beat * 4
seconds_per_measure(bpm) ==
    CHOOSE r \in {RoundToNearest(ScaleLimbs(b, 4)) : b \in {seconds_per_beat(bpm)}} : TRUE

\* line 381
target_duration == Whole(9)

\* int(x) of a float x >= 0
int(x) == BigShiftRight(x, 62)[1]

\* line 382: max(1, int(target_duration / seconds_per_measure))
first_measures(spm) ==
    CHOOSE r \in {IF m < 1 THEN 1 ELSE m : m \in {int(Divide(target_duration, spm))}} : TRUE

\* lines 383, 388: measures_per_chunk * seconds_per_measure
measures_duration(m, spm) ==
    CHOOSE r \in {IF k = 0 THEN Zero ELSE RoundToNearest(BigTimes(v, k)) :
                  k \in {m}, v \in {spm}} : TRUE

\* lines 386-387, "Ensure we never exceed 9 seconds"
capped_measures(m, spm) ==
    CHOOSE r \in {IF BigLess(target_duration, measures_duration(k, v)) THEN k - 1 ELSE k :
                  k \in {m}, v \in {spm}} : TRUE

\* lines 391-392, "Minimum chunk size: at least 1 measure"
chunk_duration_of(m, spm) ==
    CHOOSE r \in {IF BigLess(d, v) THEN v ELSE d :
                  d \in {measures_duration(m, spm)}, v \in {spm}} : TRUE

\* analyze_media, lines 355-409: the job is marked ANALYZED with chunk_duration
AnalyzeTempo ==
    /\ analysis.stage = "request"
    /\ ~(analysis.user_bpm # NoBpm /\ out_of_range(analysis.user_bpm))
    /\ \E b \in {bpm_used(analysis.user_bpm, analysis.tempo)} :
       \E spm \in {seconds_per_measure(b)} :
       \E m \in {capped_measures(first_measures(spm), spm)} :
          analysis' = [analysis EXCEPT !.stage = "ANALYZED", !.bpm = b,
                          !.measures_per_chunk = m,
                          !.chunk_duration = chunk_duration_of(m, spm)]

NextTempo ==
    /\ \/ WebhookRejects
       \/ AnalyzeTempo
    /\ UNCHANGED schedVars
    /\ UNCHANGED fetchVars
    /\ UNCHANGED calcVars

SpecTempo == InitTempo /\ [][NextTempo]_vars

\* ------------------------------------------------------ smart pre-trim
\* process_job_with_chunks, lines 288-355, times in milliseconds.  The probed
\* durations are a few milliseconds long, so that offsets on both sides of
\* the 0.01 s threshold are shorter and longer than the streams
NEAR_ZERO == 10

InitTrim ==
    /\ SchedQuiet
    /\ FetchIdle
    /\ TempoIdle
    /\ chunking = NoChunking
    /\ poll = NoPoll
    /\ SideIdle
    /\ \E o \in (-MaxOffsetMs)..MaxOffsetMs :
       \E v \in 0..MaxRawMs :
       \E a \in 0..MaxRawMs :
          pretrim = [NoPreTrim EXCEPT !.stage = "probed", !.sync_offset = o,
                                      !.video_duration_raw = v, !.audio_duration_raw = a]

Abs(x) == IF x < 0 THEN -x ELSE x

Max0(x) == IF x < 0 THEN 0 ELSE x

\* the branches as they would be with the polarity exchanged
trimmed_stream_swapped(sync_offset) ==
    IF Abs(sync_offset) < NEAR_ZERO THEN "none"
    ELSE IF sync_offset > 0 THEN "audio" ELSE "video"

\* lines 301, 307, 337: which stream ffmpeg trims
trimmed_stream(sync_offset) ==
    IF Abs(sync_offset) < NEAR_ZERO THEN "none"
    ELSE IF sync_offset > 0 THEN "video" ELSE "audio"

\* lines 305, 335, 351
video_duration(sync_offset, video_duration_raw) ==
    IF trimmed_stream(sync_offset) = "video"
    THEN Max0(video_duration_raw - sync_offset)
    ELSE video_duration_raw

\* lines 306, 336, 352
audio_duration(sync_offset, audio_duration_raw) ==
    IF trimmed_stream(sync_offset) = "audio"
    THEN Max0(audio_duration_raw - Abs(sync_offset))
    ELSE audio_duration_raw

\* the trim succeeded, or no trim was needed
PreTrim ==
    /\ pretrim.stage = "probed"
    /\ pretrim' = [pretrim EXCEPT
          !.stage = "trimmed",
          !.trimmed = trimmed_stream(pretrim.sync_offset),
          !.video_duration = video_duration(pretrim.sync_offset, pretrim.video_duration_raw),
          !.audio_duration = audio_duration(pretrim.sync_offset, pretrim.audio_duration_raw)]

\* ffmpeg failed, or the trimmed video is missing, empty or without a video
\* stream (lines 311-330, 342-347): the exception leaves the pipeline
PreTrimRaises ==
    /\ pretrim.stage = "probed"
    /\ trimmed_stream(pretrim.sync_offset) # "none"
    /\ pretrim' = [pretrim EXCEPT !.stage = "raised"]

NextTrim ==
    /\ \/ PreTrim
       \/ PreTrimRaises
    /\ UNCHANGED schedVars
    /\ UNCHANGED fetchVars
    /\ UNCHANGED tempoVars
    /\ UNCHANGED <<chunking, poll>>
    /\ UNCHANGED sideVars

SpecTrim == InitTrim /\ [][NextTrim]_vars

\* --------------------------------------------------- KlingClient.poll_status
\* video_orchestrator.py, lines 88-201: one call, one action per iteration of
\* the loop.  poll.attempt counts the status attempts made, which is also the
\* loop index of the next iteration
max_attempts == 60

max_status_failures == 10

\* "Wait at least 5 attempts before trying fallback"
fallback_min_attempt == 5

InitPoll ==
    /\ SchedQuiet
    /\ FetchIdle
    /\ TempoIdle
    /\ pretrim = NoPreTrim
    /\ chunking = NoChunking
    /\ SideIdle
    /\ poll = [NoPoll EXCEPT !.stage = "polling"]

\* the loop as it would be without its bound
loop_unbounded(attempt) == TRUE

\* for attempt in range(max_attempts)
loop_continues(attempt) == attempt < max_attempts

Polling == poll.stage = "polling" /\ loop_continues(poll.attempt)

\* lines 96-104: the status request is answered with a JSON body and the
\* count of failures is reset
Answered ==
    [poll EXCEPT !.attempt = @ + 1, !.status_poll_failures = 0, !.answered = TRUE,
                 !.result_failed = FALSE, !.fallback_tried = FALSE]

\* lines 144-146 and 190-192: return ("succeed", video_url)
Returns(p) == [p EXCEPT !.stage = "done", !.result = "succeed", !.video_url = TRUE]

\* an exception leaves poll_status
Raises(p, what) == [p EXCEPT !.stage = "done", !.result = what]

\* the test as it would be with the threshold to be exceeded, not reached
fallback_due_past_threshold(failures, attempt) ==
    failures > max_status_failures /\ attempt >= fallback_min_attempt

\* line 168: status_poll_failures >= max_status_failures and attempt >= 5,
\* attempt being the index of the iteration, the attempts that went before
fallback_due(failures, attempt) ==
    failures >= max_status_failures /\ attempt >= fallback_min_attempt

\* lines 157-159: IN_PROGRESS or IN_QUEUE, continue
StatusInProgress ==
    /\ Polling
    /\ poll' = Answered

\* lines 103-161, any other body.  An object with another status (none, or
\* a word the client does not know): no branch is taken and the loop goes
\* on.  JSON that is not an object (a list, a string, a number, null): j.get
\* raises AttributeError at line 107, after the reset of line 104; line 162
\* catches RequestException only and the error leaves poll_status
StatusUnknown ==
    /\ Polling
    /\ \E object \in BOOLEAN :
          poll' = IF object THEN Answered ELSE Raises(Answered, "error")

\* lines 110-149: COMPLETED.  The result holds a video URL, or none; or the
\* request for the result fails (an HTTP error, a timeout or a body that is
\* not JSON: a RequestException, caught at line 162 after the counter was
\* reset at line 104, which makes it the first failure counted); or the
\* result is JSON but not an object, or its "response" is neither an object
\* nor empty, and .get raises AttributeError (lines 127-128), not caught
StatusCompleted ==
    /\ Polling
    /\ \E res \in {"url", "no_url", "transport_error", "malformed"} :
          poll' = IF res = "url" THEN Returns([Answered EXCEPT !.completed_seen = TRUE])
                  ELSE IF res = "no_url"
                       THEN Raises([Answered EXCEPT !.completed_seen = TRUE], "no_url")
                  ELSE IF res = "malformed"
                       THEN Raises([Answered EXCEPT !.completed_seen = TRUE], "error")
                  ELSE [Answered EXCEPT !.status_poll_failures = 1,
                                        !.completed_seen = TRUE, !.result_failed = TRUE]

\* lines 150-156: FAILED
StatusFailed ==
    /\ Polling
    /\ poll' = Raises(Answered, "failed")

\* lines 96-103 and 162-200: the status request fails (an HTTP error, a
\* timeout, a body that is not JSON); after 10 failures in a row, from the
\* sixth attempt on, the result is fetched directly: it is returned when
\* COMPLETED with a video URL, else (any other answer, any exception) the
\* loop goes on
StatusTransportError ==
    /\ Polling
    /\ LET failures == poll.status_poll_failures + 1
           fallback == fallback_due(failures, poll.attempt)
           failed == [poll EXCEPT !.attempt = @ + 1, !.status_poll_failures = failures,
                                  !.answered = FALSE, !.result_failed = FALSE,
                                  !.fallback_tried = fallback]
       IN  \E fetched_url \in (IF fallback THEN BOOLEAN ELSE {FALSE}) :
              poll' = IF fetched_url THEN Returns(failed) ELSE failed

\* line 201: the loop is over
PollTimesOut ==
    /\ poll.stage = "polling"
    /\ ~loop_continues(poll.attempt)
    /\ poll' = [poll EXCEPT !.stage = "done", !.result = "timeout"]

PollStep ==
    \/ StatusInProgress
    \/ StatusUnknown
    \/ StatusCompleted
    \/ StatusFailed
    \/ StatusTransportError
    \/ PollTimesOut

NextPoll ==
    /\ PollStep
    /\ UNCHANGED schedVars
    /\ UNCHANGED fetchVars
    /\ UNCHANGED tempoVars
    /\ UNCHANGED <<pretrim, chunking>>
    /\ UNCHANGED sideVars

\* every iteration ends: the requests carry timeouts (30 s) and the sleep is 5 s
SpecPoll == InitPoll /\ [][NextPoll]_vars /\ WF_vars(NextPoll)

\* ------------------------------------------------- audio timing of a chunk
\* process_job_with_chunks, lines 487-501 and 695-731, and
\* generate_chunk_previews, lines 151-174; times in milliseconds
InitTiming ==
    /\ SchedQuiet
    /\ FetchIdle
    /\ TempoIdle
    /\ pretrim = NoPreTrim
    /\ chunking = NoChunking
    /\ poll = NoPoll
    /\ prog = NoProg
    /\ shot = NoShot
    /\ \E i \in 0..MaxIndex :
       \E c \in {1000 * k : k \in 1..MaxChunkSeconds} :
       \E o \in (-MaxOffsetMs)..MaxOffsetMs :
          timing = [NoTiming EXCEPT !.stage = "chunk", !.i = i, !.chunk_duration = c,
                                    !.sync_offset = o]

\* lines 491-497: the start of chunk i's slice of the master audio
audio_start_time(i, chunk_duration) ==
    IF i = 0 THEN 0 ELSE i * chunk_duration

\* lines 704-717: the start time the except handler computes for the record
audio_start_time_on_failure(i, chunk_duration, sync_offset) ==
    IF sync_offset # 0 /\ sync_offset > 0
    THEN IF i = 0 THEN 0
         ELSE IF i = 1 THEN chunk_duration - sync_offset
         ELSE IF i = 2 THEN (chunk_duration - sync_offset) + chunk_duration
         ELSE (i * chunk_duration) - sync_offset
    ELSE i * chunk_duration

\* chunk_preview.py, lines 160-174
preview_audio_start_time(i, chunk_duration, sync_offset) ==
    IF sync_offset # 0 /\ sync_offset > 0
    THEN IF i = 0 THEN 0 ELSE i * chunk_duration
    ELSE i * chunk_duration

\* lines 577-583 and 643-682: the slice is cut at audio_start_time.  The
\* COMPLETED update stores the same value (lines 655, 665); when it raises,
\* the minimal update stores status, video_url and error_message only (lines
\* 673-678); when that raises too, or the chunk has no record, nothing is
\* stored
TimingCompleted ==
    /\ timing.stage = "chunk"
    /\ \E update \in {"full", "minimal", "none"} :
          timing' = [timing EXCEPT
             !.stage = "COMPLETED",
             !.update = update,
             !.audio_start_sliced = audio_start_time(timing.i, timing.chunk_duration),
             !.audio_start_persisted =
                 IF update = "full"
                 THEN audio_start_time(timing.i, timing.chunk_duration) ELSE NoTime]

\* lines 695-753: a step raised, before the slice was cut or after it, or the
\* progress write that follows the COMPLETED update did (lines 686-691, in the
\* same try).  The FAILED update stores the handler's value (lines 726, 745);
\* when it raises, the fallback update stores status and error_message only
\* (lines 748-751) and the record keeps the audio_start_time it holds; when
\* that raises too, or the chunk has no record, nothing is stored
TimingFailed ==
    /\ timing.stage \in {"chunk", "COMPLETED"}
    /\ \E sliced \in (IF timing.stage = "COMPLETED" THEN {TRUE} ELSE BOOLEAN) :
       \E update \in {"full", "fallback", "none"} :
          timing' = [timing EXCEPT
             !.stage = "FAILED",
             !.update = update,
             !.audio_start_sliced =
                 IF sliced THEN audio_start_time(timing.i, timing.chunk_duration) ELSE NoTime,
             !.audio_start_persisted =
                 IF update = "full"
                 THEN audio_start_time_on_failure(timing.i, timing.chunk_duration,
                                                  timing.sync_offset)
                 ELSE timing.audio_start_persisted]

\* the preview of the same chunk: its audio slice starts at the preview's value
TimingPreview ==
    /\ timing.stage = "chunk"
    /\ timing' = [timing EXCEPT
          !.stage = "PREVIEW",
          !.audio_start_sliced =
              preview_audio_start_time(timing.i, timing.chunk_duration, timing.sync_offset)]

NextTiming ==
    /\ \/ TimingCompleted
       \/ TimingFailed
       \/ TimingPreview
    /\ UNCHANGED schedVars
    /\ UNCHANGED fetchVars
    /\ UNCHANGED tempoVars
    /\ UNCHANGED <<pretrim, chunking, poll, prog, shot>>

SpecTiming == InitTiming /\ [][NextTiming]_vars

\* --------------------------------------------- progress writes of one run
\* process_job_with_chunks, lines 399-831, and worker_loop, lines 171-225,
\* for a linked generation: the writes of progress_percentage, in order, one
\* step per request to the generations table
Written(p) == [prog EXCEPT !.prev = prog.last, !.last = p]

\* an exception leaves process_job_with_chunks, or the try block of
\* worker_loop after it: worker_loop's handler runs next (line 214)
ToHandler == [prog EXCEPT !.stage = "handler"]

\* lines 357-398: N is known and the chunk records are inserted; the run has
\* written no progress yet
InitProgress ==
    /\ SchedQuiet
    /\ FetchIdle
    /\ TempoIdle
    /\ pretrim = NoPreTrim
    /\ chunking = NoChunking
    /\ poll = NoPoll
    /\ timing = NoTiming
    /\ shot = NoShot
    /\ \E n \in 0..MaxRunChunks :
          prog = [NoProg EXCEPT !.stage = "start", !.num_chunks = n,
                                !.status = "processing"]

\* lines 399-406: status processing and progress 10 are written; or the
\* update raises, outside any try of the pipeline
ProgressStart ==
    /\ prog.stage = "start"
    /\ \/ prog' = [Written(10) EXCEPT !.stage = "probe"]
       \/ prog' = ToHandler

\* lines 410-422: the generation's status is read and is 'cancelled' (the
\* user cancelled it) and the pipeline raises; or the read raises
ProgressCancelled ==
    /\ prog.stage = "probe"
    /\ prog.i < prog.num_chunks
    /\ \/ prog' = [ToHandler EXCEPT !.status = "cancelled"]
       \/ prog' = ToHandler

\* lines 427-440: the chunk is moved to PROCESSING and the progress at the
\* start of chunk i is written; or one of the two updates raises, inside the
\* chunk's try: nothing is written and the chunk's handler runs (line 695)
ProgressChunkStart ==
    /\ prog.stage = "probe"
    /\ prog.i < prog.num_chunks
    /\ \/ prog' = [Written(chunk_progress(prog.i, prog.num_chunks)) EXCEPT
                       !.stage = "chunk"]
       \/ prog' = [prog EXCEPT !.stage = "chunk_failed"]

\* lines 683-691: chunk i completed
ProgressChunkCompleted ==
    /\ prog.stage = "chunk"
    /\ prog' = [Written(chunk_progress(prog.i + 1, prog.num_chunks)) EXCEPT
                    !.stage = "probe", !.i = @ + 1, !.segments = @ + 1]

\* lines 442-691: a step of chunk i raised, or (appended) the progress write
\* after its completion did; nothing is written to the generation and the
\* chunk's handler runs (line 695)
ProgressChunkFailed ==
    /\ prog.stage = "chunk"
    /\ \E appended_before \in BOOLEAN :
          prog' = [prog EXCEPT !.stage = "chunk_failed",
                               !.segments = IF appended_before THEN @ + 1 ELSE @]

\* lines 695-753: the chunk's handler marks the record FAILED (or has no
\* record to mark) and the loop goes on; or its update raised and the
\* fallback update raises too (lines 748-751), outside any try of the pipeline
ProgressChunkHandled ==
    /\ prog.stage = "chunk_failed"
    /\ \/ prog' = [prog EXCEPT !.stage = "probe", !.i = @ + 1]
       \/ prog' = ToHandler

\* lines 756-757
ProgressNoChunk ==
    /\ prog.stage = "probe"
    /\ prog.i = prog.num_chunks
    /\ prog.segments = 0
    /\ prog' = ToHandler

\* lines 775-785: the credits are stored, then stitching and 90 are written;
\* or one of the two updates raises, before 90 is written
ProgressStitching ==
    /\ prog.stage = "probe"
    /\ prog.i = prog.num_chunks
    /\ prog.segments > 0
    /\ \/ prog' = [Written(90) EXCEPT !.stage = "stitching"]
       \/ prog' = ToHandler

\* lines 787-800: the concat raises
ProgressStitchRaises ==
    /\ prog.stage = "stitching"
    /\ prog' = ToHandler

\* lines 802-807: finalizing and 95 are written; or the update raises
ProgressFinalizing ==
    /\ prog.stage = "stitching"
    /\ \/ prog' = [Written(95) EXCEPT !.stage = "finalizing"]
       \/ prog' = ToHandler

\* lines 810-829: the final file is missing or empty, or its copy raises
ProgressFinalFileRaises ==
    /\ prog.stage = "finalizing"
    /\ prog' = ToHandler

\* lines 815-831: the pipeline returns
ProgressReturns ==
    /\ prog.stage = "finalizing"
    /\ prog' = [prog EXCEPT !.stage = "returned"]

\* worker_loop, lines 171-196: the upload of the final video, its signed URL
\* or mark_job_complete raises
ProgressUploadRaises ==
    /\ prog.stage = "returned"
    /\ prog' = ToHandler

\* worker_loop, lines 199-208: status completed and progress 100, one
\* update; or the update raises and nothing is written
ProgressCompleted ==
    /\ prog.stage = "returned"
    /\ \/ prog' = [Written(100) EXCEPT !.stage = "project", !.status = "completed"]
       \/ prog' = ToHandler

\* worker_loop, lines 210-214: the project is read and set to completed; or
\* the read or the update raises, after the generation was set to completed
\* with progress 100
ProgressProject ==
    /\ prog.stage = "project"
    /\ \/ prog' = [prog EXCEPT !.stage = "completed"]
       \/ prog' = ToHandler

\* worker_loop, lines 214-225: the handler marks the job failed and sets the
\* generation's status to failed, progress_percentage is not in the update;
\* or mark_job_failed or the update raises, outside any try, and the
\* generation keeps its status
ProgressHandler ==
    /\ prog.stage = "handler"
    /\ \/ prog' = [prog EXCEPT !.stage = "raised", !.status = "failed"]
       \/ prog' = [prog EXCEPT !.stage = "raised"]

NextProgress ==
    /\ \/ ProgressStart
       \/ ProgressCancelled
       \/ ProgressChunkStart
       \/ ProgressChunkCompleted
       \/ ProgressChunkFailed
       \/ ProgressChunkHandled
       \/ ProgressNoChunk
       \/ ProgressStitching
       \/ ProgressStitchRaises
       \/ ProgressFinalizing
       \/ ProgressFinalFileRaises
       \/ ProgressReturns
       \/ ProgressUploadRaises
       \/ ProgressCompleted
       \/ ProgressProject
       \/ ProgressHandler
    /\ UNCHANGED schedVars
    /\ UNCHANGED fetchVars
    /\ UNCHANGED tempoVars
    /\ UNCHANGED <<pretrim, chunking, poll, timing, shot>>

SpecProgress == InitProgress /\ [][NextProgress]_vars

\* ------------------------------------------- legacy single-shot invocation
\* process_video.py: one POST to api.post_root, which calls
\* process_video_impl; shot.status is the status of the request's generation

\* line 262: for _ in range(60)
poll_range == 60

\* _fail: the generation is marked failed with a message
_fail(msg) == [shot EXCEPT !.status = "failed", !.error_message = msg]

\* post_root, lines 566-571: an exception of process_video_impl is caught and
\* answered with ok false; the generation's row is not written
post_root_except ==
    shot' = [shot EXCEPT !.stage = "returned", !.out = "error", !.raised = TRUE]

\* _fail(msg) is called and process_video_impl returns {"ok": False, ...};
\* or the update of _fail raises (line 539), where no try of
\* process_video_impl catches it or where the handler that does calls _fail
\* once more in vain (line 253): the generation's row is not written
FailAndReturn(msg) ==
    \/ shot' = [_fail(msg) EXCEPT !.stage = "returned", !.out = "error"]
    \/ post_root_except

\* the request: with or without audio_track_url, trial user or not
InitShot ==
    /\ SchedQuiet
    /\ FetchIdle
    /\ TempoIdle
    /\ pretrim = NoPreTrim
    /\ chunking = NoChunking
    /\ poll = NoPoll
    /\ timing = NoTiming
    /\ prog = NoProg
    /\ \E a \in BOOLEAN : \E tr \in BOOLEAN :
          shot = [NoShot EXCEPT !.stage = "request", !.audio = a, !.is_trial = tr]

\* lines 42-68, before any request to the tables.  A required field is
\* missing or no API key is configured: ok false is returned (lines 52-53,
\* 61-62); or a field has the wrong type, the service key is not in the
\* environment or create_client raises; or the client is created
ShotRequest ==
    /\ shot.stage = "request"
    /\ \/ shot' = [shot EXCEPT !.stage = "returned", !.out = "error"]
       \/ post_root_except
       \/ shot' = [shot EXCEPT !.stage = "inputs"]

\* lines 88-120: a download or the conversion of the inputs raises
ShotInputsFail ==
    /\ shot.stage = "inputs"
    /\ FailAndReturn("Download failed")

ShotInputsReady ==
    /\ shot.stage = "inputs"
    /\ shot' = [shot EXCEPT !.stage = "prepare"]

\* lines 128-132: audalign cannot be imported
ShotAlignUnavailable ==
    /\ shot.stage = "prepare"
    /\ shot.audio
    /\ FailAndReturn("Audio alignment service unavailable")

\* lines 134-208: ffmpeg or the alignment raises, outside any try
ShotPrepareRaises ==
    /\ shot.stage = "prepare"
    /\ post_root_except

ShotPrepared ==
    /\ shot.stage = "prepare"
    /\ shot' = [shot EXCEPT !.stage = "submit"]

\* lines 220-254: the submission is refused, has no request_id, or raises
ShotSubmitFails ==
    /\ shot.stage = "submit"
    /\ FailAndReturn("Video generation failed")

\* line 256: the synthesis request was accepted, its id is stored and the
\* generation set to processing; or the update raises, outside any try, and
\* the generation is not set to processing
ShotSubmitted ==
    /\ shot.stage = "submit"
    /\ \/ shot' = [shot EXCEPT !.stage = "poll", !.submitted = TRUE,
                               !.status = "processing"]
       \/ post_root_except

\* lines 262-314: the task is in progress or in queue, the status is unknown,
\* or the iteration raises (the update of _fail at lines 279 and 306
\* included): the loop goes on
ShotPollAgain ==
    /\ shot.stage = "poll"
    /\ shot.polls < poll_range
    /\ shot' = [shot EXCEPT !.polls = @ + 1]

\* lines 275-280: FAILED, and the update of _fail goes through
ShotPollFailed ==
    /\ shot.stage = "poll"
    /\ shot.polls < poll_range
    /\ shot' = [_fail("Video generation failed") EXCEPT !.stage = "returned", !.out = "error"]

\* lines 281-304: COMPLETED and the result holds a video URL
ShotPollCompleted ==
    /\ shot.stage = "poll"
    /\ shot.polls < poll_range
    /\ shot' = [shot EXCEPT !.stage = "download"]

\* lines 306-307: COMPLETED and the result holds no video URL, and the
\* update of _fail goes through
ShotPollNoOutput ==
    /\ shot.stage = "poll"
    /\ shot.polls < poll_range
    /\ shot' = [_fail("Video generation produced no output") EXCEPT
                    !.stage = "returned", !.out = "error"]

\* lines 315-317: the loop ran out
ShotPollTimeout ==
    /\ shot.stage = "poll"
    /\ shot.polls = poll_range
    /\ FailAndReturn("Video generation timed out")

\* line 319: the download of the synthesized video raises, outside any try
ShotDownloadRaises ==
    /\ shot.stage = "download"
    /\ post_root_except

ShotDownloaded ==
    /\ shot.stage = "download"
    /\ shot' = [shot EXCEPT !.stage = "merge"]

\* lines 322-378: the extraction or the merge of the audio raises
ShotMergeFails ==
    /\ shot.stage = "merge"
    /\ shot.audio
    /\ FailAndReturn("Audio/video merge failed")

\* lines 322-383: merged, or copied as it is when there is no audio
ShotMerged ==
    /\ shot.stage = "merge"
    /\ shot' = [shot EXCEPT !.stage = "watermark"]

\* lines 386-411: the watermark's ffmpeg raises, outside any try
ShotWatermarkRaises ==
    /\ shot.stage = "watermark"
    /\ shot.is_trial
    /\ post_root_except

\* lines 386-413
ShotWatermarked ==
    /\ shot.stage = "watermark"
    /\ shot' = [shot EXCEPT !.stage = "upload"]

\* lines 415-422: the upload of the final video or the update to completed
\* raises, outside any try
ShotUploadRaises ==
    /\ shot.stage = "upload"
    /\ post_root_except

\* lines 415-422: uploaded, and the generation set to completed
ShotCompleted ==
    /\ shot.stage = "upload"
    /\ shot' = [shot EXCEPT !.stage = "project", !.status = "completed"]

\* lines 424-426: the project's select or update raises, outside any try
ShotProjectRaises ==
    /\ shot.stage = "project"
    /\ post_root_except

\* lines 424-441
ShotReturns ==
    /\ shot.stage = "project"
    /\ shot' = [shot EXCEPT !.stage = "returned", !.out = "ok"]

NextShot ==
    /\ \/ ShotRequest
       \/ ShotInputsFail
       \/ ShotInputsReady
       \/ ShotAlignUnavailable
       \/ ShotPrepareRaises
       \/ ShotPrepared
       \/ ShotSubmitFails
       \/ ShotSubmitted
       \/ ShotPollAgain
       \/ ShotPollFailed
       \/ ShotPollCompleted
       \/ ShotPollNoOutput
       \/ ShotPollTimeout
       \/ ShotDownloadRaises
       \/ ShotDownloaded
       \/ ShotMergeFails
       \/ ShotMerged
       \/ ShotWatermarkRaises
       \/ ShotWatermarked
       \/ ShotUploadRaises
       \/ ShotCompleted
       \/ ShotProjectRaises
       \/ ShotReturns
    /\ UNCHANGED schedVars
    /\ UNCHANGED fetchVars
    /\ UNCHANGED tempoVars
    /\ UNCHANGED <<pretrim, chunking, poll, timing, prog>>

SpecShot == InitShot /\ [][NextShot]_vars

\* ================================================================= claims
\* the job of tick t's current or latest run, and the chunk records that the
\* run inserted
RunJob(u) == IF cur[u].job # NoJob THEN cur[u].job ELSE outcome[u].job

RunRows(t) == IF RunJob(t) = NoJob THEN <<>> ELSE video_chunks[RunJob(t)][t]

\* the positions inside the chunk loop and inside a pipeline
LoopSteps == {"chunk_probe", "cancel_mark", "chunk_start", "chunk_progress",
              "chunk_submit", "chunk_poll", "chunk_done"}

PipelineSteps ==
    {"run", "chunk_insert"} \cup LoopSteps \cup {"cost", "stitching", "stitch", "finalizing"}

InPipeline(t) == pc[t] \in PipelineSteps

RunningJobs == {cur[t].job : t \in {u \in Ticks : InPipeline(u)}}

\* max_concurrent_jobs: the configured value, 3 by default
MaxConcurrentJobs == IF system_config = NoConfig THEN 3 ELSE system_config

\* C1: the number of jobs whose pipeline is executing at the same time never
\* exceeds max_concurrent_jobs.
C1_ConcurrencyBound == Cardinality(RunningJobs) <= MaxConcurrentJobs

\* C2: no job is run through the pipeline by more than one worker tick.
C2_OneTickPerJob ==
    \A t \in Ticks : \A u \in Ticks :
        (t # u /\ InPipeline(t) /\ InPipeline(u)) => cur[t].job # cur[u].job

\* the order of the claim: is_first_time DESC, tier weight DESC, created_at ASC
ClaimedWeight(tier) ==
    CASE tier = "demo" -> 5 [] tier = "label" -> 4 [] tier = "artist" -> 3
      [] tier = "open_mic" -> 2 [] tier = "industry" -> 1

ClaimedFirst(r, rows) ==
    \A o \in rows \ {r} :
        \/ r.is_first_time /\ ~o.is_first_time
        \/ /\ r.is_first_time = o.is_first_time
           /\ ClaimedWeight(r.tier) > ClaimedWeight(o.tier)
        \/ /\ r.is_first_time = o.is_first_time
           /\ ClaimedWeight(r.tier) = ClaimedWeight(o.tier)
           /\ r.created_at < o.created_at

\* C3: whichever way the job is obtained (stored routine or fallback query),
\* the row fetched from a set of PENDING rows is the first under the order
\* is_first_time DESC, tier weight DESC, created_at ASC.
C3_FetchIsFirst ==
    fetched.via # "none" =>
        /\ fetched.found <=> pending_set # {}
        /\ fetched.found => fetched.row \in pending_set /\ ClaimedFirst(fetched.row, pending_set)


\* tick t has fetched a demo or industry job that is not ANALYZED
FetchedUnanalyzed(t) ==
    /\ pc[t] \in {"fetched", "skip_cancelled"}
    /\ video_jobs[cur[t].job].tier \in {"demo", "industry"}
    /\ cur[t].analysis_status # "ANALYZED"

Moves(t) == pc'[t] # pc[t]

JobStatusKept(t) ==
    video_jobs'[cur[t].job].status = video_jobs[cur[t].job].status

\* C4 as stated: a tick that fetches a demo or industry job that is not
\* ANALYZED ends without starting the pipeline and leaves the job PENDING.
C4_GateLeavesPending ==
    [][\A t \in Ticks : (FetchedUnanalyzed(t) /\ Moves(t)) =>
          /\ pc'[t] \in {"idle", "skip_cancelled"}
          /\ video_jobs'[cur[t].job].status = "PENDING"]_vars

\* C4 amended: a tick that fetches a demo or industry job that is not ANALYZED
\* ends without starting the pipeline; it leaves the job's status as it was,
\* except that it marks the job FAILED with "Cancelled by user" when it reads
\* the linked generation as cancelled.
C4_GateNeverDispatches ==
    [][\A t \in Ticks : (FetchedUnanalyzed(t) /\ Moves(t)) =>
          /\ pc'[t] \in {"idle", "skip_cancelled"}
          /\ \/ JobStatusKept(t)
             \/ /\ pc[t] = "skip_cancelled"
                /\ generations[cur[t].job].status = "cancelled"
                /\ video_jobs'[cur[t].job].status = "FAILED"
                /\ video_jobs'[cur[t].job].error_message = CancelMsg]_vars

\* the gate has fired and the job is still PENDING
C4_Witness ==
    \E t \in Ticks :
        /\ outcome[t].kind = "needs_analysis"
        /\ video_jobs[outcome[t].job].tier \in {"demo", "industry"}
        /\ video_jobs[outcome[t].job].analysis_status # "ANALYZED"
        /\ video_jobs[outcome[t].job].status = "PENDING"

\* C5: whenever the pipeline is executing for a job, the job's persisted
\* status is PROCESSING.
C5_ProcessingWhileRunning ==
    \A t \in Ticks : InPipeline(t) => video_jobs[cur[t].job].status = "PROCESSING"

\* the invocation of tick t ends with an exception (caught by the handler or not)
EndsByException(t) ==
    /\ pc[t] # "idle"
    /\ pc'[t] = "idle"
    /\ outcome'[t].kind \in {"raised", "failed"}

\* C6: any exception raised while a tick handles a job it has fetched ends with
\* the job FAILED and the linked generation failed.
C6_ExceptionsEndFailed ==
    [][\A t \in Ticks : EndsByException(t) =>
          /\ video_jobs'[cur[t].job].status = "FAILED"
          /\ video_jobs[cur[t].job].generation_id =>
                generations'[cur[t].job].status = "failed"]_vars

\* C7: if the linked generation is cancelled when a tick has fetched a job, the
\* tick marks the job FAILED with "Cancelled by user" and returns without
\* starting the pipeline.
C7_CancelledBeforeDispatch ==
    [][\A t \in Ticks :
          /\ (/\ pc[t] = "fetched"
              /\ video_jobs[cur[t].job].generation_id
              /\ generations[cur[t].job].status = "cancelled"
              /\ Moves(t)) =>
                pc'[t] = "skip_cancelled"
          /\ (pc[t] = "skip_cancelled" /\ Moves(t)) =>
                /\ pc'[t] = "idle"
                /\ video_jobs'[cur[t].job].status = "FAILED"
                /\ video_jobs'[cur[t].job].error_message = CancelMsg
                /\ RunRows(t)' = <<>>
                /\ synth_requests'[t] = {}]_vars

\* the chunk records and submissions of a run that read 'cancelled' at
\* iteration i: nothing at or after i is started, and when the run has ended
\* every record at or after i is FAILED by the cancellation
AfterCancelSeen(t) ==
    \A k \in 0..(Len(RunRows(t)) - 1) :
        k >= cancel_seen[t] =>
            /\ k \notin synth_requests[t]
            /\ RunRows(t)[k + 1].status # "PROCESSING"
            /\ pc[t] = "idle" =>
                  /\ RunRows(t)[k + 1].status \in {"FAILED", "NO_ROW"}
                  /\ RunRows(t)[k + 1].status = "FAILED" =>
                         RunRows(t)[k + 1].error_message = CancelMsg

CompletedKept(t) ==
    \A k \in 1..Len(RunRows(t)) :
        (RunRows(t)[k].status = "COMPLETED" /\ cancel_seen'[t] # NotSeen) =>
            (Len(RunRows(t)') >= k /\ RunRows(t)'[k].status = "COMPLETED")

\* C8: when a run reads the generation as cancelled at the start of iteration
\* i, no chunk with index >= i is moved to PROCESSING or submitted for
\* synthesis, every chunk record with index >= i ends FAILED with "Cancelled by
\* user", and the records that are COMPLETED stay COMPLETED.
C8_CancelAtChunkBoundary ==
    /\ [](\A t \in Ticks : cancel_seen[t] # NotSeen => AfterCancelSeen(t))
    /\ [][\A t \in Ticks : CompletedKept(t)]_vars

\* C9: after a run that observed cancellation and marked the job FAILED, the
\* generation's status is still cancelled.
C9_GenerationStaysCancelled ==
    \A t \in Ticks :
        (cancel_seen[t] # NotSeen /\ outcome[t].kind = "failed") =>
            generations[outcome[t].job].status = "cancelled"

\* C10: once the user has cancelled the generation of a job that a tick has
\* fetched, the tick starts no further chunk iteration.
C10_NoChunkStartsAfterCancel ==
    [][\A t \in Ticks :
          (pc[t] = "chunk_probe" /\ pc'[t] = "chunk_start") =>
              ~generations[cur[t].job].cancel_requested]_vars

\* C11: when a run reads the generation as cancelled at a chunk boundary, the
\* job ends FAILED with error_message "Cancelled by user", the message written
\* to its remaining chunks.
C11_CancelMessageOnJob ==
    \A t \in Ticks :
        (pc[t] = "idle" /\ cancel_seen[t] # NotSeen) =>
            /\ video_jobs[outcome[t].job].status = "FAILED"
            /\ video_jobs[outcome[t].job].error_message = CancelMsg

InChunk(t) == pc[t] \in {"chunk_submit", "chunk_poll"}

\* a step of chunk i of tick t failed: the tick left the chunk without
\* producing its segment
ChunkStepFailed(t) ==
    /\ InChunk(t)
    /\ pc'[t] \notin {"chunk_submit", "chunk_poll"}
    /\ \A x \in 1..Len(cur'[t].final_segments) : cur'[t].final_segments[x] # cur[t].i

LoopOver(t) ==
    /\ pc[t] = "chunk_probe"
    /\ cur[t].i = cur[t].num_chunks
    /\ Moves(t)

\* C12: a failure in a step of chunk i marks chunk i FAILED with an error
\* message of at most 500 characters and processing continues with chunk i+1;
\* when the loop is over, the pipeline proceeds to stitch if a chunk completed
\* and the job fails if none did.
C12_ChunkFailureIsLocal ==
    [][\A t \in Ticks :
          /\ ChunkStepFailed(t) =>
                /\ pc'[t] = "chunk_probe"
                /\ cur'[t].i = cur[t].i + 1
                /\ RowExists(t, cur[t].i) =>
                      /\ RunRows(t)'[cur[t].i + 1].status = "FAILED"
                      /\ RunRows(t)'[cur[t].i + 1].error_len <= 500
          /\ LoopOver(t) =>
                IF cur[t].final_segments # <<>>
                THEN pc'[t] = "cost"
                ELSE video_jobs'[cur[t].job].status = "FAILED"]_vars

\* C13: inside the chunk loop the job ends FAILED only if no chunk completed
\* or cancellation was observed; an error confined to one chunk never fails a
\* job in which another chunk completed.
C13_JobFailsOnlyIfNoneCompleted ==
    [][\A t \in Ticks :
          (/\ pc[t] \in LoopSteps
           /\ pc'[t] \in {"handler", "idle"}
           /\ video_jobs'[cur[t].job].status = "FAILED") =>
              \/ cur[t].final_segments = <<>>
              \/ cancel_seen'[t] # NotSeen]_vars

AfterChunkCreation(t) ==
    pc[t] \in LoopSteps \cup {"cost", "stitching", "stitch", "finalizing"}

\* C14: after chunk creation the persisted chunk records of the job have the
\* chunk_index values 0..N-1, each exactly once, whatever inserts fail.
C14_ChunkIndexesComplete ==
    \A t \in Ticks :
        AfterChunkCreation(t) =>
            /\ Len(RunRows(t)) = cur[t].num_chunks
            /\ \A k \in 0..(cur[t].num_chunks - 1) : RunRows(t)[k + 1].status # "NO_ROW"

\* C15: polling for chunk i never starts while the chunk record lacks the
\* request id returned by the submission.
C15_RequestIdBeforePoll ==
    \A t \in Ticks :
        pc[t] = "chunk_poll" =>
            /\ RunRows(t)[cur[t].i + 1].status # "NO_ROW"
            /\ RunRows(t)[cur[t].i + 1].fal_request_id

\* C16: every chunk record whose status is COMPLETED has a persisted
\* synthesis request id.
C16_CompletedHasRequestId ==
    \A j \in Jobs : \A t \in Ticks : \A k \in 1..Len(video_chunks[j][t]) :
        video_chunks[j][t][k].status = "COMPLETED" => video_chunks[j][t][k].fal_request_id

\* C17: every chunk record with status COMPLETED has a video_url that refers
\* to outputs/<generation_id or job_id>/chunk_NNN.mp4 of its own job and
\* index, never the URL returned by the synthesis service.
C17_VideoUrlInOutputs ==
    \A j \in Jobs : \A t \in Ticks : \A k \in 1..Len(video_chunks[j][t]) :
        video_chunks[j][t][k].status = "COMPLETED" =>
            /\ video_chunks[j][t][k].video_url.prefix = "outputs"
            /\ video_chunks[j][t][k].video_url.id = j
            /\ video_chunks[j][t][k].video_url.index = k - 1
            /\ video_chunks[j][t][k].video_url.owner =
                  (IF video_jobs[j].generation_id THEN "generation" ELSE "job")

\* the second chunk of a run is COMPLETED with its muxed segment's key
C17_Witness ==
    \E t \in Ticks :
        /\ Len(RunRows(t)) = 2
        /\ RunRows(t)[2].status = "COMPLETED"
        /\ RunRows(t)[2].video_url.prefix = "outputs"
        /\ RunRows(t)[2].video_url.index = 1

RunEnded(t) == pc[t] = "idle" /\ outcome[t].kind \in {"completed", "failed"}

\* C18: whenever a job's run has ended (COMPLETED or FAILED), the generation's
\* cost_credits equals the sum of the charges of its COMPLETED chunks, one
\* charge of floor(chunk_duration) per completed chunk.
C18_CostCreditsIsSum ==
    \A t \in Ticks :
        (RunEnded(t) /\ video_jobs[outcome[t].job].generation_id) =>
            generations[outcome[t].job].cost_credits = Cardinality(CompletedOf(outcome[t].job))

\* C19: the progress_percentage values written to a generation while its
\* status is pending or processing never decrease.
C19_ProgressMonotonic ==
    [][\A j \in Jobs :
          generations[j].status \in {"pending", "processing"} =>
              generations'[j].progress_percentage >= generations[j].progress_percentage]_vars

\* C20: for every job the analyzer marks ANALYZED, 0 < chunk_duration <= 9.0
C20_ChunkDurationBounded ==
    analysis.stage = "ANALYZED" =>
        /\ BigLess(Zero, analysis.chunk_duration)
        /\ ~BigLess(Whole(9), analysis.chunk_duration)

\* C21: for every bpm b the analyzer's chunk_duration is m * (240 / b) seconds
\* with m = max(1, floor(9b / 240)): a whole number, at least one, of 4/4
\* measures (m is the exact floor for the float b; the product and the
\* quotient are those of floats)
C21_WholeMeasures ==
    analysis.stage = "ANALYZED" =>
        \E b \in {analysis.bpm} :
        \E floor9b \in {BigShiftRight(BigDivMod(BigTimes(b, 9), 240).q, 62)[1]} :
        \E m \in {IF floor9b > 1 THEN floor9b ELSE 1} :
            analysis.chunk_duration = RoundToNearest(BigTimes(Divide(Whole(240), b), m))

\* C22: for a pre-trimmed duration d and a chunk duration c the number of
\* chunks is N_raw = ceil(d / c) when N_raw <= 1 or the last chunk,
\* d - (N_raw - 1) * c, lasts at least 3.0 s, and N_raw - 1 otherwise
C22_LastChunkRule ==
    chunking.stage = "counted" =>
        LET d == chunking.duration
            c == chunking.chunk_duration
            N_raw == IF d % c = 0 THEN d \div c ELSE (d \div c) + 1
        IN  chunking.num_chunks =
               IF N_raw <= 1 \/ d - (N_raw - 1) * c >= 3000 THEN N_raw ELSE N_raw - 1

\* C23 as stated: at most one stream is trimmed, chosen by the sign of
\* sync_offset: neither for |sync_offset| < 0.01; for sync_offset > 0 the video
\* duration used for chunking is original_video_duration - sync_offset and the
\* audio is unchanged; for sync_offset < 0 the audio is shortened by
\* |sync_offset| and the video duration is unchanged
C23_PreTrimBySign ==
    pretrim.stage = "trimmed" =>
        LET o == pretrim.sync_offset
        IN  IF -10 < o /\ o < 10
            THEN /\ pretrim.video_duration = pretrim.video_duration_raw
                 /\ pretrim.audio_duration = pretrim.audio_duration_raw
            ELSE IF o > 0
            THEN /\ pretrim.video_duration = pretrim.video_duration_raw - o
                 /\ pretrim.audio_duration = pretrim.audio_duration_raw
            ELSE /\ pretrim.audio_duration = pretrim.audio_duration_raw + o
                 /\ pretrim.video_duration = pretrim.video_duration_raw

\* C23 amended: as C23, the trimmed stream's duration being cut at zero: for
\* sync_offset >= 0.01 the video duration used for chunking is
\* max(0, original_video_duration - sync_offset), for sync_offset <= -0.01 the
\* audio duration is max(0, original_audio_duration - |sync_offset|)
C23_PreTrimClamped ==
    pretrim.stage = "trimmed" =>
        LET o == pretrim.sync_offset
            v == pretrim.video_duration_raw
            a == pretrim.audio_duration_raw
        IN  IF -10 < o /\ o < 10
            THEN /\ pretrim.video_duration = v
                 /\ pretrim.audio_duration = a
                 /\ pretrim.trimmed = "none"
            ELSE IF o > 0
            THEN /\ pretrim.video_duration = (IF v - o > 0 THEN v - o ELSE 0)
                 /\ pretrim.audio_duration = a
                 /\ pretrim.trimmed = "video"
            ELSE /\ pretrim.audio_duration = (IF a + o > 0 THEN a + o ELSE 0)
                 /\ pretrim.video_duration = v
                 /\ pretrim.trimmed = "audio"

\* C23: a negative offset longer than the audio was applied: the audio was
\* trimmed to nothing and the video kept
C23_Witness ==
    /\ pretrim.stage = "trimmed"
    /\ pretrim.sync_offset = -12
    /\ pretrim.audio_duration_raw = 5
    /\ pretrim.audio_duration = 0
    /\ pretrim.video_duration = pretrim.video_duration_raw
    /\ pretrim.video_duration_raw = 14

\* C24: within one job the chunks are processed in index order, one at a
\* time: while chunk i is being worked on (moved to PROCESSING, submitted),
\* every earlier chunk's record has its terminal status, COMPLETED or FAILED,
\* and no later chunk was submitted
C24_ChunksInOrder ==
    \A t \in Ticks :
        pc[t] \in {"chunk_progress", "chunk_submit", "chunk_poll"} =>
            /\ \A k \in 0..(cur[t].i - 1) :
                  RowExists(t, k) => Rows(t)[k + 1].status \in {"COMPLETED", "FAILED"}
            /\ \A k \in synth_requests[t] : k <= cur[t].i

\* C25 as stated: poll_status terminates after at most 60 status attempts,
\* whatever the service answers: it returns success with a video URL, or
\* raises the service's failure, or raises a timeout after the 60th attempt
\* without COMPLETED; it never returns a non-success result
C25_PollThreeOutcomes ==
    /\ [](poll.attempt <= 60)
    /\ [](poll.stage = "done" =>
            \/ poll.result = "succeed" /\ poll.video_url
            \/ poll.result = "failed"
            \/ poll.result = "timeout" /\ poll.attempt = 60 /\ ~poll.completed_seen)
    /\ <>(poll.stage = "done")

\* C25 amended: poll_status terminates after at most 60 status attempts,
\* whatever the service answers: it returns success with a video URL, or
\* raises the service's failure, or raises an error for a COMPLETED request
\* whose result holds no video URL, or raises the AttributeError of an
\* answered request whose JSON body is not an object, or raises a timeout
\* after the 60th attempt; it never returns a non-success result
C25_PollTerminates ==
    /\ [](poll.attempt <= 60)
    /\ [](poll.stage = "done" =>
            \/ poll.result = "succeed" /\ poll.video_url
            \/ poll.result = "failed" /\ poll.answered
            \/ poll.result = "no_url" /\ poll.completed_seen
            \/ poll.result = "error" /\ poll.answered
            \/ poll.result = "timeout" /\ poll.attempt = 60)
    /\ <>(poll.stage = "done")

\* C25: sixty attempts went by, transport errors among the last ones, and the
\* call ended with the timeout
C25_Witness ==
    /\ poll.stage = "done"
    /\ poll.result = "timeout"
    /\ poll.attempt = 60
    /\ poll.status_poll_failures >= 10

\* C26: a job whose video is longer than its tier's ceiling (demo 20 s,
\* industry 90 s, any other tier 9 s) is rejected before any chunk record is
\* created and before any synthesis request is submitted, on the chunked path
\* and on the legacy path
C26_TierCeilingEnforced ==
    \A t \in Ticks :
        LET tier == video_jobs[cur[t].job].tier
            ceiling == IF tier = "demo" THEN 20 ELSE IF tier = "industry" THEN 90 ELSE 9
        IN  (cur[t].job # NoJob /\ cur[t].duration > ceiling) =>
                /\ RunRows(t) = <<>>
                /\ synth_requests[t] = {}

\* C27: the path a pipeline returns to the scheduler refers to a file that
\* exists, with the final artifact's bytes, once the pipeline's scratch
\* directory is gone, for the chunked and for the legacy pipeline
C27_ReturnedPathExists ==
    \A t \in Ticks : pc[t] = "upload" => cur[t].path_exists

\* C28: every job's status is PENDING, PROCESSING, COMPLETED or FAILED,
\* whichever component wrote it last
C28_JobStatusDomain ==
    \A j \in Jobs : video_jobs[j].status \in {"PENDING", "PROCESSING", "COMPLETED", "FAILED"}

\* C29: every analysis run for an existing job ends with the job ANALYZED,
\* its results (chunk_duration with sync_offset and bpm) persisted, or with
\* analysis_status FAILED and the error recorded; the analyzer never reports
\* success for a job whose record was not updated to ANALYZED (at the step
\* with which a run ends, the webhook answering)
C29_AnalysisOutcomePersisted ==
    [][\A j \in Jobs :
          InFlight(j)' < InFlight(j) =>
              /\ analyzing'[j].answer = "complete" =>
                    /\ video_jobs'[j].analysis_status = "ANALYZED"
                    /\ video_jobs'[j].chunk_duration = "set"
              /\ analyzing'[j].answer = "error" =>
                    /\ video_jobs'[j].analysis_status = "FAILED"
                    /\ video_jobs'[j].error_message # ""]_vars

\* the chunk indexes of a list of segments
SegmentSet(segs) == {segs[x] : x \in 1..Len(segs)}

Ascending(segs) == \A x \in 1..Len(segs) : \A y \in 1..Len(segs) : x < y => segs[x] < segs[y]

ChunkedArtifact(t) == pc[t] = "upload" /\ use_chunk_tracking(t)

\* C30 as stated: the final artifact is built from exactly the segments of the
\* chunks whose mux and segment upload succeeded in this run, in ascending
\* chunk-index order; a single segment is the artifact without concatenation;
\* a chunk whose database update failed after its mux is still included
C30_ArtifactFromUploaded ==
    \A t \in Ticks :
        ChunkedArtifact(t) =>
            /\ SegmentSet(cur[t].final_video.segments) = cur[t].segments_uploaded
            /\ Ascending(cur[t].final_video.segments)
            /\ cur[t].final_video.concatenated <=> Len(cur[t].final_video.segments) > 1

\* C30 amended: the final artifact is built from exactly the segments of the
\* chunks whose mux, segment upload and creation of the segment's URL
\* succeeded in this run, in ascending chunk-index order; a single segment is
\* the artifact without concatenation; a chunk whose database update failed
\* after its mux is still included
C30_ArtifactFromSigned ==
    \A t \in Ticks :
        ChunkedArtifact(t) =>
            /\ SegmentSet(cur[t].final_video.segments) = cur[t].segments_signed
            /\ Ascending(cur[t].final_video.segments)
            /\ cur[t].final_video.concatenated <=> Len(cur[t].final_video.segments) > 1

\* C30: two chunks were muxed and uploaded, no update reached the record of
\* chunk 0, and the artifact is the concatenation of both segments
C30_Witness ==
    \E t \in Ticks :
        /\ ChunkedArtifact(t)
        /\ cur[t].final_video = [segments |-> <<0, 1>>, concatenated |-> TRUE]
        /\ RowExists(t, 0)
        /\ Rows(t)[1].status = "PROCESSING"
        /\ Rows(t)[2].status = "COMPLETED"

\* C31: for every chunk index i the audio_start_time used to slice the master
\* audio and the audio_start_time persisted on the chunk record both equal
\* i * chunk_duration, for completed and for failed chunks and for every sign
\* of sync_offset
C31_AudioStartIsIndexTimesDuration ==
    timing.stage \in {"COMPLETED", "FAILED", "PREVIEW"} =>
        /\ timing.audio_start_sliced # NoTime =>
              timing.audio_start_sliced = timing.i * timing.chunk_duration
        /\ timing.audio_start_persisted # NoTime =>
              timing.audio_start_persisted = timing.i * timing.chunk_duration

\* an iteration of the loop was made
AttemptMade == poll'.attempt = poll.attempt + 1

\* C32 as stated: once the count of status-request transport errors has
\* reached 10 and at least 5 attempts have elapsed, every subsequent attempt
\* additionally tries the result endpoint directly, and a COMPLETED result
\* with a video URL found there is returned as success
C32_FallbackEveryAttempt ==
    [][(/\ poll.status_poll_failures >= 10
        /\ poll.attempt >= 5
        /\ AttemptMade) =>
           /\ poll'.fallback_tried
           /\ poll'.stage = "done" => (poll'.result = "succeed" /\ poll'.video_url)]_vars

\* C32 amended: the count is of consecutive failed requests.  An attempt
\* whose status request is answered leaves it at 0, or at 1 when the status
\* was COMPLETED and the request for the result then failed (nine more
\* failures in a row then reach the threshold); an attempt whose status
\* request fails adds 1.  An attempt tries the result endpoint directly
\* exactly when its status request fails and brings or keeps the count at 10
\* or more with at least 5 attempts elapsed; a COMPLETED result with a video
\* URL found there is returned as success, and otherwise polling goes on
C32_FallbackOnFailingAttempts ==
    [][AttemptMade =>
          /\ (poll'.answered /\ poll'.stage = "polling") =>
                poll'.status_poll_failures = (IF poll'.result_failed THEN 1 ELSE 0)
          /\ ~poll'.answered =>
                poll'.status_poll_failures = poll.status_poll_failures + 1
          /\ poll'.result_failed => (poll'.answered /\ poll'.completed_seen)
          /\ poll'.fallback_tried <=>
                (/\ ~poll'.answered
                 /\ poll'.status_poll_failures >= 10
                 /\ poll.attempt >= 5)
          /\ poll'.fallback_tried =>
                \/ poll'.stage = "done" /\ poll'.result = "succeed" /\ poll'.video_url
                \/ poll'.stage = "polling"]_vars

\* C32: the tenth transport error in a row came at the tenth attempt, the
\* result endpoint was asked and held the video: the call returned success
C32_Witness ==
    /\ poll.stage = "done"
    /\ poll.fallback_tried
    /\ poll.status_poll_failures = 10
    /\ poll.attempt = 10
    /\ poll.result = "succeed"
    /\ poll.video_url

\* the moves of a chunk record's status that the claim allows; PENDING to
\* FAILED is the move of a cancellation
ChunkMoveAllowed(old, new) ==
    \/ new.status = old.status
    \/ old.status = "PENDING" /\ new.status = "PROCESSING"
    \/ old.status = "PROCESSING" /\ new.status \in {"COMPLETED", "FAILED"}
    \/ old.status = "PENDING" /\ new.status = "FAILED" /\ new.error_message = CancelMsg

\* C33: every chunk record is created PENDING and its status only moves
\* PENDING->PROCESSING->COMPLETED, PENDING->PROCESSING->FAILED, or
\* PENDING->FAILED on cancellation; COMPLETED and FAILED are absorbing: no
\* write by the pipeline changes a record that is COMPLETED or FAILED
C33_ChunkStatusMoves ==
    [][\A j \in Jobs : \A t \in Ticks :
          \A k \in 1..Len(video_chunks'[j][t]) :
              IF k > Len(video_chunks[j][t])
              THEN video_chunks'[j][t][k].status \in {"PENDING", "NO_ROW"}
              ELSE /\ ChunkMoveAllowed(video_chunks[j][t][k], video_chunks'[j][t][k])
                   /\ video_chunks[j][t][k].status \in {"COMPLETED", "FAILED"} =>
                         video_chunks'[j][t][k] = video_chunks[j][t][k]]_vars

\* the rows of video_jobs, generations and video_chunks are what they were
RecordsKept == UNCHANGED <<video_jobs, generations, video_chunks>>

ProcessingCount == Cardinality({j \in Jobs : video_jobs[j].status = "PROCESSING"})

NonePending == \A j \in Jobs : video_jobs[j].status # "PENDING"

\* C34: a tick that finds the count of PROCESSING jobs >= max_concurrent_jobs
\* (the limit it has read: the configured value, or the default 3 when the
\* value could not be read) does not fetch any job, and a tick that finds no
\* PENDING job dispatches nothing; in both cases every job, chunk and
\* generation record is left unchanged
C34_SkippedTicksWriteNothing ==
    [][\A t \in Ticks :
          /\ (pc[t] = "idle" /\ Moves(t)) =>
                /\ pc'[t] = "capacity"
                /\ cur'[t].limit \in {MaxConcurrentJobs, 3}
                /\ RecordsKept
          /\ (pc[t] = "capacity" /\ Moves(t)) =>
                /\ RecordsKept
                /\ IF ProcessingCount >= cur[t].limit
                   THEN pc'[t] = "idle" /\ outcome'[t].kind = "saturated"
                   ELSE pc'[t] = "fetch"
          /\ (pc[t] = "fetch" /\ NonePending /\ Moves(t)) =>
                /\ pc'[t] = "idle"
                /\ outcome'[t].kind = "empty"
                /\ RecordsKept]_vars

\* C34: with one job PROCESSING and a limit of one, a tick has ended
\* "saturated" while a job was PENDING
C34_Witness ==
    \E t \in Ticks :
        /\ outcome[t].kind = "saturated"
        /\ pc[t] = "idle"
        /\ ProcessingCount = 1
        /\ MaxConcurrentJobs = 1
        /\ ~NonePending

\* floor(80 * k / n) for n > 0
Floor80(k, n) == CHOOSE q \in 0..80 : q * n <= 80 * k /\ 80 * k < (q + 1) * n

C36_TerminalJobStatusKept ==
    [][\A j \in Jobs :
          video_jobs[j].status \in {"COMPLETED", "FAILED"} =>
              video_jobs'[j].status = video_jobs[j].status]_vars

\* C37: when a job's run of the chunked pipeline has ended (the job is
\* COMPLETED or FAILED), none of the job's chunk records is left PENDING or
\* PROCESSING, whatever step failed and whatever database writes failed
C37_NoChunkLeftOpen ==
    \A t \in Ticks :
        RunEnded(t) =>
            \A k \in 1..Len(RunRows(t)) :
                RunRows(t)[k].status \notin {"PENDING", "PROCESSING"}

CapacityAvailable == ProcessingCount < MaxConcurrentJobs

\* a PENDING job that the analysis gate lets through, that is not cancelled
\* and whose chunk_duration is known
Dispatchable(j) ==
    /\ video_jobs[j].status = "PENDING"
    /\ ~(video_jobs[j].tier \in {"demo", "industry"} /\ video_jobs[j].analysis_status # "ANALYZED")
    /\ ~(video_jobs[j].generation_id /\ generations[j].status = "cancelled")
    /\ video_jobs[j].chunk_duration # "null"

\* capacity is available, a job can be dispatched, and every PENDING job has
\* its chunk_duration
DispatchDue ==
    /\ CapacityAvailable
    /\ \E j \in Jobs : Dispatchable(j)
    /\ \A j \in Jobs : video_jobs[j].status = "PENDING" => video_jobs[j].chunk_duration # "null"

Dispatched == \E t \in Ticks : pc[t] \in {"try", "run"}

\* C38: if capacity is available and some PENDING job passes the analysis gate
\* and is not cancelled, then under fair ticking a job is eventually
\* dispatched, even while the highest-priority PENDING job is a demo or
\* industry job that is not yet ANALYZED: it never happens that, from some
\* point on, a dispatch stays due and no job is dispatched
C38_EligibleJobDispatched == []<>(~DispatchDue \/ Dispatched)

\* tick t holds a job of a tier without analysis gate, fetched with its
\* analysis outputs null
HoldsUnanalyzedLegacyJob(t) ==
    /\ cur[t].job # NoJob
    /\ video_jobs[cur[t].job].tier \in {"label", "artist", "open_mic"}
    /\ cur[t].chunk_duration = "null"

\* C39: a fetched PENDING job of tier label, artist or open_mic whose analysis
\* outputs are null passes the analysis gate (unless its generation is
\* cancelled), is run through the legacy pipeline, and has a terminal status,
\* COMPLETED or FAILED, when the tick ends
C39_LegacyJobRunsInTick ==
    [][\A t \in Ticks :
          HoldsUnanalyzedLegacyJob(t) =>
             /\ (pc[t] = "fetched" /\ Moves(t) /\ ~GenCancelled(cur[t].job)) =>
                   pc'[t] = "try"
             /\ (pc[t] # "idle" /\ pc'[t] = "idle") =>
                   video_jobs'[cur[t].job].status \in {"COMPLETED", "FAILED"}]_vars

\* C40: every invocation of the single-shot process_video_impl that has set
\* the generation to processing ends with the generation's status completed
\* or failed; when it answers ok false or raises after the synthesis request
\* was submitted, the generation is failed with an error message, never left
\* in processing
C40_SingleShotEndsTerminal ==
    (shot.stage = "returned" /\ shot.submitted) =>
       /\ shot.status \in {"completed", "failed"}
       /\ shot.out = "error" =>
             (shot.status = "failed" /\ shot.error_message # "null")

====
